---- MODULE Spec2Model ----
(***************************************************************************)
(* RBAC persistence core (framework/wazuh/rbac/orm.py).                    *)
(*                                                                         *)
(* The store is modelled twice: db is what is committed in rbac.db, sess   *)
(* is what the SQLAlchemy session sees (db plus the flushed or pending     *)
(* changes of its open transaction).  session.commit() makes db equal to   *)
(* sess, session.rollback() and session.close() make sess equal to db.     *)
(* The entity and relationship managers take the session as a constructor  *)
(* argument (DatabaseManager hands one session to all of them), so one     *)
(* session is shared by every call of these managers in the model.         *)
(***************************************************************************)
EXTENDS Integers, Sequences, FiniteSets, TLC

VARIABLES
    db,           \* committed tables
    sess,         \* tables as seen by the session
    op,           \* the last call: [name, a]
    ret,          \* what the last call returned
    cache_calls,  \* calls of clear_cache made by the last call
    users_tb,     \* users_token_blacklist rows
    roles_tb,     \* roles_token_blacklist rows
    runas_tb,     \* runas_token_blacklist rows
    now,          \* int(time())
    issued,       \* history: subject -> the latest time add_rules recorded a rule for it
    alist,        \* history: per kind and parent, the abstract child list
    rbac,         \* rbac.db: whether the file exists, and its user_version
    tmp,          \* rbac.db.tmp: {} if absent, else {[store, user_version]}
    pc,           \* where check_database_integrity is
    callers       \* per concurrent add_user_roles_rules call: where it is, what it returned

vars == <<db, sess, op, ret, cache_calls,
          users_tb, roles_tb, runas_tb, now, issued, alist, rbac, tmp, pc, callers>>

storeVars == <<db, sess>>
tokenVars == <<users_tb, roles_tb, runas_tb, now, issued, callers>>
fileVars == <<rbac, tmp, pc>>

-----------------------------------------------------------------------------
(* Program constants *)

max_id_reserved == 99

\* ids above it and up to max_id_reserved are kept for cloud resources
cloud_reserved_range == 89

\* required_rules_for_role = {1: [1, 2]}: the role and the rules it must keep
required_role == 1
required_rules == {1, 2}

\* position default of add_user_to_role and replace_user_role
default_position == -1

-----------------------------------------------------------------------------
(* Bounds *)

\* explicit positions given to add are 0..MaxPos
MaxPos == 2

\* the clock runs over 0..MaxTime
MaxTime == 3

\* security_conf['auth_token_exp_timeout'], a configuration value
auth_token_exp_timeout == 2

\* get_api_revision(): the user_version this API expects of rbac.db
expected_version == 2

\* the callers of add_user_roles_rules(run_as=True) that run at the same time
Callers == {1, 2}

-----------------------------------------------------------------------------
(* Universe of ids the calls are made with *)

UserIds == {1, 99, 100}
RoleIds == {1, 99, 100, 101}
PolicyIds == {1, 99, 100, 101}
RuleIds == {1, 2, 99, 100}

\* the subjects of the token rules
TokUsers == {100, 200}
TokRoles == {1}

\* the parents and children the relationship calls are made with
URUsers == {1, 100}
URRoles == {100, 101}
RPRoles == {1, 100}
RPPolicies == {1, 100, 101}

\* an optional position: {} is None, {p} is the integer p
NoPos == {}
ExplicitPos == {{p} : p \in 0..MaxPos}

Max(S) == CHOOSE x \in S : \A y \in S : y <= x

\* the orders in which a query without a total ORDER BY can return S
Perms(S) ==
    {f \in [1..Cardinality(S) -> S] : \A i, j \in 1..Cardinality(S) : i /= j => f[i] /= f[j]}

-----------------------------------------------------------------------------
(* Session primitives *)

Commit(c) == [sess |-> c.sess, db |-> c.sess]
Rollback(c) == [sess |-> c.db, db |-> c.db]
Out(c, r) == [c |-> c, ret |-> r]
CommitIf(atomic, c) == IF atomic THEN Commit(c) ELSE c

\* SELECT ... WHERE id = i  .first() is not None
HasId(table, i) == \E e \in table : e.id = i

\* truth value of a manager result used as a Python condition:
\* False, None and SecurityError.ALREADY_EXIST (0) are falsy
Truthy(r) == r \notin {"False", "None", "ALREADY_EXIST"}

\* delete_orphans after the flush of session.delete(entity): the relationship
\* rows whose foreign key was nulled by the delete are deleted with it
delete_user_rows(s, user_id) ==
    [s EXCEPT !.users = {e \in @ : e.id /= user_id},
              !.ur = {x \in @ : x.user_id /= user_id}]

\* session.delete(role) with the relationship rows left behind
delete_role_rows_left(s, role_id) ==
    [s EXCEPT !.roles = {e \in @ : e.id /= role_id}]

delete_role_rows(s, role_id) ==
    [s EXCEPT !.roles = {e \in @ : e.id /= role_id},
              !.ur = {x \in @ : x.role_id /= role_id},
              !.rp = {x \in @ : x.role_id /= role_id},
              !.rr = {x \in @ : x.role_id /= role_id}]

delete_rule_rows(s, rule_id) ==
    [s EXCEPT !.rules = {e \in @ : e.id /= rule_id},
              !.rr = {x \in @ : x.rule_id /= rule_id}]

delete_policy_rows(s, policy_id) ==
    [s EXCEPT !.policies = {e \in @ : e.id /= policy_id},
              !.rp = {x \in @ : x.policy_id /= policy_id}]

-----------------------------------------------------------------------------
(* Entity managers: the delete operations *)

\* AuthenticationManager.delete_user
delete_user(c, user_id) ==
    IF user_id > max_id_reserved
    THEN IF ~HasId(c.sess.users, user_id)
         THEN Out(c, "False")
         ELSE Out(Commit([c EXCEPT !.sess = delete_user_rows(@, user_id)]), "True")
    ELSE Out(c, "ADMIN_RESOURCES")

\* delete_role with the reserved range one id short
delete_role_off_by_one(c, role_id) ==
    IF role_id >= max_id_reserved
    THEN IF ~HasId(c.sess.roles, role_id)
         THEN Out(c, "False")
         ELSE Out(Commit([c EXCEPT !.sess = delete_role_rows(@, role_id)]), "True")
    ELSE Out(c, "ADMIN_RESOURCES")

\* RolesManager.delete_role
delete_role(c, role_id) ==
    IF role_id > max_id_reserved
    THEN IF ~HasId(c.sess.roles, role_id)
         THEN Out(c, "False")
         ELSE Out(Commit([c EXCEPT !.sess = delete_role_rows(@, role_id)]), "True")
    ELSE Out(c, "ADMIN_RESOURCES")

\* RulesManager.delete_rule
delete_rule(c, rule_id) ==
    IF rule_id > max_id_reserved
    THEN IF ~HasId(c.sess.rules, rule_id)
         THEN Out(c, "False")
         ELSE Out(Commit([c EXCEPT !.sess = delete_rule_rows(@, rule_id)]), "True")
    ELSE Out(c, "ADMIN_RESOURCES")

\* PoliciesManager.delete_policy
delete_policy(c, policy_id) ==
    IF policy_id > max_id_reserved
    THEN IF ~HasId(c.sess.policies, policy_id)
         THEN Out(c, "False")
         ELSE Out(Commit([c EXCEPT !.sess = delete_policy_rows(@, policy_id)]), "True")
    ELSE Out(c, "ADMIN_RESOURCES")

\* the ids a table holds under a name (the name is unique: at most one)
IdsNamed(table, name) == {e.id : e \in {x \in table : x.name = name}}

\* RolesManager.delete_role_by_name.  get_role returns ROLE_NOT_EXIST for an
\* unknown name and the subscript ['id'] of that IntEnum raises TypeError, which
\* the except clause does not catch.  For a known name get_role calls
\* Roles.to_dict, whose `with RolesPoliciesManager(session=session)` closes the
\* session on exit: the pending changes of the session are discarded.
delete_role_by_name(c, role_name) ==
    LET ids == IdsNamed(c.sess.roles, role_name) IN
    IF ids = {}
    THEN Out(c, "raise TypeError")
    ELSE LET role_id == CHOOSE i \in ids : TRUE
             closed == Rollback(c)
         IN IF role_id > max_id_reserved
            THEN Out(delete_role(closed, role_id).c, "True")
            ELSE Out(closed, "False")

\* RulesManager.delete_rule_by_name (Rules.to_dict opens no manager)
delete_rule_by_name(c, rule_name) ==
    LET ids == IdsNamed(c.sess.rules, rule_name) IN
    IF ids = {}
    THEN Out(c, "raise TypeError")
    ELSE LET rule_id == CHOOSE i \in ids : TRUE
         IN IF rule_id > max_id_reserved
            THEN Out(delete_rule(c, rule_id).c, "True")
            ELSE Out(c, "False")

\* PoliciesManager.delete_policy_by_name (Policies.to_dict closes the session)
delete_policy_by_name(c, policy_name) ==
    LET ids == IdsNamed(c.sess.policies, policy_name) IN
    IF ids = {}
    THEN Out(c, "raise TypeError")
    ELSE LET policy_id == CHOOSE i \in ids : TRUE
             closed == Rollback(c)
         IN IF policy_id > max_id_reserved
            THEN Out(delete_policy(closed, policy_id).c, "True")
            ELSE Out(closed, "False")

\* the ids delete_all_* deletes: those above max_id_reserved
Deletable(table) == {e.id : e \in {x \in table : x.id > max_id_reserved}}

\* RolesManager.delete_all_roles: one delete and one commit per role
RECURSIVE delete_all_roles_loop(_, _)
delete_all_roles_loop(c, ids) ==
    IF ids = {} THEN c
    ELSE LET i == CHOOSE x \in ids : TRUE
         IN delete_all_roles_loop(delete_role(c, i).c, ids \ {i})

delete_all_roles(c) ==
    Out(delete_all_roles_loop(c, Deletable(c.sess.roles)), "List")

\* RulesManager.delete_all_rules
RECURSIVE delete_all_rules_loop(_, _)
delete_all_rules_loop(c, ids) ==
    IF ids = {} THEN c
    ELSE LET i == CHOOSE x \in ids : TRUE
         IN delete_all_rules_loop(delete_rule(c, i).c, ids \ {i})

delete_all_rules(c) ==
    Out(delete_all_rules_loop(c, Deletable(c.sess.rules)), "List")

\* PoliciesManager.delete_all_policies
RECURSIVE delete_all_policies_loop(_, _)
delete_all_policies_loop(c, ids) ==
    IF ids = {} THEN c
    ELSE LET i == CHOOSE x \in ids : TRUE
         IN delete_all_policies_loop(delete_policy(c, i).c, ids \ {i})

delete_all_policies(c) ==
    Out(delete_all_policies_loop(c, Deletable(c.sess.policies)), "List")

-----------------------------------------------------------------------------
(* UserRolesManager *)

UserRows(s, user_id) == {x \in s.ur : x.user_id = user_id}

\* the orders in which `ORDER BY level` can return rows (ties in any order)
ByLevel(rows) ==
    {f \in Perms(rows) : \A i, j \in 1..Cardinality(rows) : i < j => f[i].level <= f[j].level}

\* lines 1626-1632 and 1961-1967: the rows at level >= position, in ascending
\* level order, are given the levels position+1, position+2, ...
\* the add without the loop that raises the levels
ShiftUp_none(rows, position) == {rows}

ShiftUp(rows, position) ==
    LET up == {x \in rows : x.level >= position}
    IN {(rows \ up) \cup {[f[i] EXCEPT !.level = position + i] : i \in 1..Cardinality(up)}
        : f \in ByLevel(up)}

\* lines 1636-1645: the level given to the new row; rows holds the new row
\* too, at the column default 0
user_role_level(rows, position) ==
    IF position = NoPos
    THEN Cardinality(rows) - 1
    ELSE LET p == CHOOSE x \in position : TRUE
             max_position == Max({x.level : x \in rows})
         IN IF max_position = 0 /\ Cardinality(rows) - 1 = 0 THEN 0
            ELSE IF p > max_position + 1 THEN max_position + 1
            ELSE p

\* UserRolesManager.add_role_to_user: the set of possible outcomes
add_role_to_user(c, user_id, role_id, position, force_admin, atomic) ==
    LET s == c.sess
        rows == UserRows(s, user_id)
        linked == \E x \in rows : x.role_id = role_id
    IN
    IF ~(user_id > max_id_reserved \/ force_admin) THEN {Out(c, "ADMIN_RESOURCES")}
    ELSE IF ~HasId(s.users, user_id) THEN {Out(c, "USER_NOT_EXIST")}
    ELSE IF ~HasId(s.roles, role_id) THEN {Out(c, "ROLE_NOT_EXIST")}
    ELSE IF position = NoPos /\ linked THEN {Out(c, "ALREADY_EXIST")}
    ELSE IF linked
         \* user.roles.append(role) of a linked pair: the autoflush of the next
         \* query violates the user_role unique constraint, the except clause
         \* rolls the session back
    THEN {Out(Rollback(c), "INVALID")}
    ELSE LET shifted ==
                 IF position /= NoPos /\ (\E x \in rows : {x.level} = position)
                 THEN ShiftUp(rows, CHOOSE x \in position : TRUE)
                 ELSE {rows}
             new == [user_id |-> user_id, role_id |-> role_id, level |-> 0]
         IN {LET level == user_role_level(rs \cup {new}, position)
                 s1 == [s EXCEPT !.ur = (@ \ rows) \cup rs \cup {[new EXCEPT !.level = level]}]
             IN Out(CommitIf(atomic, [c EXCEPT !.sess = s1]), "True")
             : rs \in shifted}

\* UserRolesManager.add_user_to_role
add_user_to_role(c, user_id, role_id, position, atomic) ==
    add_role_to_user(c, user_id, role_id, position, FALSE, atomic)

\* UserRolesManager.get_all_roles_from_user: the possible results
get_all_roles_from_user(s, user_id) ==
    {[i \in 1..Len(f) |-> f[i].role_id] : f \in ByLevel(UserRows(s, user_id))}

\* UserRolesManager.exist_user_role
exist_user_role(s, user_id, role_id) ==
    IF ~HasId(s.users, user_id) THEN "USER_NOT_EXIST"
    ELSE IF ~HasId(s.roles, role_id) THEN "ROLE_NOT_EXIST"
    ELSE IF \E x \in UserRows(s, user_id) : x.role_id = role_id THEN "True"
    ELSE "False"

\* UserRolesManager.remove_role_in_user
remove_role_in_user(c, user_id, role_id, atomic) ==
    LET s == c.sess IN
    IF ~(user_id > max_id_reserved) THEN Out(c, "ADMIN_RESOURCES")
    ELSE IF ~HasId(s.users, user_id) THEN Out(c, "USER_NOT_EXIST")
    ELSE IF ~HasId(s.roles, role_id) THEN Out(c, "ROLE_NOT_EXIST")
    ELSE IF \E x \in UserRows(s, user_id) : x.role_id = role_id
    THEN LET s1 == [s EXCEPT !.ur = {x \in @ : ~(x.user_id = user_id /\ x.role_id = role_id)}]
         IN Out(CommitIf(atomic, [c EXCEPT !.sess = s1]), "True")
    ELSE Out(c, "INVALID")

\* UserRolesManager.remove_user_in_role
remove_user_in_role(c, user_id, role_id, atomic) ==
    remove_role_in_user(c, user_id, role_id, atomic)

\* the loop of remove_all_roles_in_user over the roles in the order given
RECURSIVE remove_all_roles_in_user_loop(_, _, _, _)
remove_all_roles_in_user_loop(c, user_id, roles, i) ==
    IF i > Len(roles) THEN c
    ELSE remove_all_roles_in_user_loop(
             remove_role_in_user(c, user_id, roles[i], FALSE).c, user_id, roles, i + 1)

\* UserRolesManager.remove_all_roles_in_user: the set of possible outcomes
remove_all_roles_in_user(c, user_id) ==
    IF user_id > max_id_reserved
    THEN IF ~HasId(c.sess.users, user_id)
         THEN {Out(c, "raise AttributeError")}
         ELSE {Out(Commit(remove_all_roles_in_user_loop(c, user_id, roles, 1)), "True")
               : roles \in Perms({x.role_id : x \in UserRows(c.sess, user_id)})}
    ELSE {Out(c, "None")}

\* the loop of remove_all_users_in_role: it returns at the first removal that
\* is not True, without a rollback
RECURSIVE remove_all_users_in_role_loop(_, _, _, _)
remove_all_users_in_role_loop(c, role_id, users, i) ==
    IF i > Len(users) THEN Out(Commit(c), "True")
    ELSE LET r == remove_user_in_role(c, users[i], role_id, FALSE)
         IN IF r.ret /= "True" THEN Out(r.c, "RELATIONSHIP_ERROR")
            ELSE remove_all_users_in_role_loop(r.c, role_id, users, i + 1)

\* UserRolesManager.remove_all_users_in_role: the set of possible outcomes
remove_all_users_in_role(c, role_id) ==
    IF role_id > max_id_reserved
    THEN IF ~HasId(c.sess.roles, role_id)
         THEN {Out(c, "raise AttributeError")}
         ELSE {remove_all_users_in_role_loop(c, role_id, users, 1)
               : users \in Perms({x.user_id : x \in {y \in c.sess.ur : y.role_id = role_id}})}
    ELSE {Out(c, "None")}

\* UserRolesManager.replace_user_role: the set of possible outcomes
replace_user_role(c, user_id, actual_role_id, new_role_id, position) ==
    IF user_id > max_id_reserved
       /\ Truthy(exist_user_role(c.sess, user_id, actual_role_id))
       /\ HasId(c.sess.roles, new_role_id)
    THEN LET removed == remove_role_in_user(c, user_id, actual_role_id, FALSE)
         IN IF removed.ret /= "True"
            THEN {Out(removed.c, "RELATIONSHIP_ERROR")}
            ELSE {IF added.ret /= "True"
                  THEN Out(added.c, "RELATIONSHIP_ERROR")
                  ELSE Out(Commit(added.c), "True")
                  : added \in add_user_to_role(removed.c, user_id, new_role_id, position, FALSE)}
    ELSE {Out(c, "False")}

-----------------------------------------------------------------------------
(* RolesPoliciesManager *)

RoleRows(s, role_id) == {x \in s.rp : x.role_id = role_id}

\* check_max_level and lines 1972-1980: the level given to the new row; rows
\* holds the new row too, at the column default 0
role_policy_level(rows, position) ==
    LET check_max_level == Max({x.level : x \in rows}) IN
    IF position = NoPos \/ (CHOOSE x \in position : TRUE) > check_max_level + 1
    THEN Cardinality(rows) - 1
    ELSE LET p == CHOOSE x \in position : TRUE
             max_position == Max({x.level : x \in rows})
         IN IF max_position = 0 /\ Cardinality(rows) - 1 = 0 THEN 0
            ELSE IF p > max_position + 1 THEN max_position + 1
            ELSE p

\* RolesPoliciesManager.add_policy_to_role: the set of possible outcomes
add_policy_to_role(c, role_id, policy_id, position, force_admin, atomic) ==
    LET s == c.sess
        rows == RoleRows(s, role_id)
        linked == \E x \in rows : x.policy_id = policy_id
    IN
    IF ~(role_id > max_id_reserved \/ force_admin) THEN {Out(c, "ADMIN_RESOURCES")}
    ELSE IF ~HasId(s.roles, role_id) THEN {Out(c, "ROLE_NOT_EXIST")}
    ELSE IF ~HasId(s.policies, policy_id) THEN {Out(c, "POLICY_NOT_EXIST")}
    ELSE IF position = NoPos /\ linked THEN {Out(c, "ALREADY_EXIST")}
    ELSE IF linked
         \* role.policies.append(policy) of a linked pair: the autoflush violates
         \* the role_policy unique constraint, the except clause rolls back
    THEN {Out(Rollback(c), "INVALID")}
    ELSE LET shifted ==
                 IF position /= NoPos /\ (\E x \in rows : {x.level} = position)
                 THEN ShiftUp(rows, CHOOSE x \in position : TRUE)
                 ELSE {rows}
             new == [role_id |-> role_id, policy_id |-> policy_id, level |-> 0]
         IN {LET level == role_policy_level(rs \cup {new}, position)
                 s1 == [s EXCEPT !.rp = (@ \ rows) \cup rs \cup {[new EXCEPT !.level = level]}]
             IN Out(CommitIf(atomic, [c EXCEPT !.sess = s1]), "True")
             : rs \in shifted}

\* RolesPoliciesManager.add_role_to_policy
add_role_to_policy(c, policy_id, role_id, position, force_admin, atomic) ==
    add_policy_to_role(c, role_id, policy_id, position, force_admin, atomic)

\* RolesPoliciesManager.get_all_policies_from_role: the possible results
get_all_policies_from_role(s, role_id) ==
    {[i \in 1..Len(f) |-> f[i].policy_id] : f \in ByLevel(RoleRows(s, role_id))}

\* RolesPoliciesManager.exist_role_policy
exist_role_policy(s, role_id, policy_id) ==
    IF ~HasId(s.roles, role_id) THEN "ROLE_NOT_EXIST"
    ELSE IF ~HasId(s.policies, policy_id) THEN "POLICY_NOT_EXIST"
    ELSE IF \E x \in RoleRows(s, role_id) : x.policy_id = policy_id THEN "True"
    ELSE "False"

\* lines 2146-2151: the rows left at level >= the removed level go down by one
ShiftDown(rows, level) ==
    {IF x.level >= level THEN [x EXCEPT !.level = @ - 1] ELSE x : x \in rows}

\* RolesPoliciesManager.remove_policy_in_role
remove_policy_in_role(c, role_id, policy_id, atomic) ==
    LET s == c.sess
        rows == RoleRows(s, role_id)
        found == {x \in rows : x.policy_id = policy_id}
    IN
    IF ~(role_id > max_id_reserved) THEN Out(c, "ADMIN_RESOURCES")
    ELSE IF ~HasId(s.roles, role_id) THEN Out(c, "ROLE_NOT_EXIST")
    ELSE IF ~HasId(s.policies, policy_id) THEN Out(c, "POLICY_NOT_EXIST")
    ELSE IF found /= {}
    THEN LET role_policy == CHOOSE x \in found : TRUE
             s1 == [s EXCEPT !.rp = (@ \ rows) \cup ShiftDown(rows \ found, role_policy.level)]
         IN Out(CommitIf(atomic, [c EXCEPT !.sess = s1]), "True")
    ELSE Out(c, "INVALID")

\* RolesPoliciesManager.remove_role_in_policy
remove_role_in_policy(c, role_id, policy_id, atomic) ==
    remove_policy_in_role(c, role_id, policy_id, atomic)

\* the loop of remove_all_policies_in_role: it returns at the first removal
\* that is not True, without a rollback
RECURSIVE remove_all_policies_in_role_loop(_, _, _, _)
remove_all_policies_in_role_loop(c, role_id, policies, i) ==
    IF i > Len(policies) THEN Out(Commit(c), "True")
    ELSE LET r == remove_policy_in_role(c, role_id, policies[i], FALSE)
         IN IF r.ret /= "True" THEN Out(r.c, "RELATIONSHIP_ERROR")
            ELSE remove_all_policies_in_role_loop(r.c, role_id, policies, i + 1)

\* RolesPoliciesManager.remove_all_policies_in_role: the set of possible outcomes
remove_all_policies_in_role(c, role_id) ==
    IF role_id > max_id_reserved
    THEN IF ~HasId(c.sess.roles, role_id)
         THEN {Out(c, "raise AttributeError")}
         ELSE {remove_all_policies_in_role_loop(c, role_id, policies, 1)
               : policies \in Perms({x.policy_id : x \in RoleRows(c.sess, role_id)})}
    ELSE {Out(c, "None")}

\* the loop of remove_all_roles_in_policy: the result of each removal is ignored
RECURSIVE remove_all_roles_in_policy_loop(_, _, _, _)
remove_all_roles_in_policy_loop(c, policy_id, roles, i) ==
    IF i > Len(roles) THEN c
    ELSE remove_all_roles_in_policy_loop(
             remove_policy_in_role(c, roles[i], policy_id, FALSE).c, policy_id, roles, i + 1)

\* RolesPoliciesManager.remove_all_roles_in_policy: the set of possible outcomes
remove_all_roles_in_policy(c, policy_id) ==
    IF policy_id > max_id_reserved
    THEN IF ~HasId(c.sess.policies, policy_id)
         THEN {Out(c, "raise AttributeError")}
         ELSE {Out(Commit(remove_all_roles_in_policy_loop(c, policy_id, roles, 1)), "True")
               : roles \in Perms({x.role_id : x \in {y \in c.sess.rp : y.policy_id = policy_id}})}
    ELSE {Out(c, "None")}

\* RolesPoliciesManager.replace_role_policy: the set of possible outcomes
replace_role_policy(c, role_id, current_policy_id, new_policy_id) ==
    IF role_id > max_id_reserved
       /\ Truthy(exist_role_policy(c.sess, role_id, current_policy_id))
       /\ HasId(c.sess.policies, new_policy_id)
    THEN LET removed == remove_policy_in_role(c, role_id, current_policy_id, FALSE)
         IN IF removed.ret /= "True"
            THEN {Out(removed.c, "RELATIONSHIP_ERROR")}
            ELSE {IF added.ret /= "True"
                  THEN Out(added.c, "RELATIONSHIP_ERROR")
                  ELSE Out(Commit(added.c), "True")
                  : added \in add_policy_to_role(removed.c, role_id, new_policy_id, NoPos, FALSE, FALSE)}
    ELSE {Out(c, "False")}

-----------------------------------------------------------------------------
(* RolesRulesManager *)

RoleRuleLinked(s, role_id, rule_id) ==
    \E x \in s.rr : x.role_id = role_id /\ x.rule_id = rule_id

\* RolesRulesManager.add_rule_to_role
add_rule_to_role(c, rule_id, role_id, atomic, force_admin) ==
    LET s == c.sess IN
    IF ~(rule_id > max_id_reserved \/ force_admin) THEN Out(c, "ADMIN_RESOURCES")
    ELSE IF ~HasId(s.rules, rule_id) THEN Out(c, "RULE_NOT_EXIST")
    ELSE IF ~HasId(s.roles, role_id) THEN Out(c, "ROLE_NOT_EXIST")
    ELSE IF ~RoleRuleLinked(s, role_id, rule_id)
    THEN LET s1 == [s EXCEPT !.rr = @ \cup {[role_id |-> role_id, rule_id |-> rule_id]}]
         IN Out(CommitIf(atomic, [c EXCEPT !.sess = s1]), "True")
    ELSE Out(c, "ALREADY_EXIST")

\* RolesRulesManager.exist_role_rule
exist_role_rule(s, role_id, rule_id) ==
    IF ~HasId(s.rules, rule_id) THEN "RULE_NOT_EXIST"
    ELSE IF ~HasId(s.roles, role_id) THEN "ROLE_NOT_EXIST"
    ELSE IF RoleRuleLinked(s, role_id, rule_id) THEN "True"
    ELSE "False"

\* remove_rule_in_role without the guard on required rules
remove_rule_in_role_unguarded(c, rule_id, role_id, atomic) ==
    LET s == c.sess IN
    IF ~HasId(s.rules, rule_id) THEN Out(c, "RULE_NOT_EXIST")
    ELSE IF ~HasId(s.roles, role_id) THEN Out(c, "ROLE_NOT_EXIST")
    ELSE IF RoleRuleLinked(s, role_id, rule_id)
    THEN LET s1 == [s EXCEPT !.rr = {x \in @ : ~(x.role_id = role_id /\ x.rule_id = rule_id)}]
         IN Out(CommitIf(atomic, [c EXCEPT !.sess = s1]), "True")
    ELSE Out(c, "INVALID")

\* RolesRulesManager.remove_rule_in_role
remove_rule_in_role(c, rule_id, role_id, atomic) ==
    LET s == c.sess IN
    IF ~(rule_id > max_id_reserved) THEN Out(c, "ADMIN_RESOURCES")
    ELSE IF ~HasId(s.rules, rule_id) THEN Out(c, "RULE_NOT_EXIST")
    ELSE IF ~HasId(s.roles, role_id) THEN Out(c, "ROLE_NOT_EXIST")
    ELSE IF RoleRuleLinked(s, role_id, rule_id)
    THEN LET s1 == [s EXCEPT !.rr = {x \in @ : ~(x.role_id = role_id /\ x.rule_id = rule_id)}]
         IN Out(CommitIf(atomic, [c EXCEPT !.sess = s1]), "True")
    ELSE Out(c, "INVALID")

\* RolesRulesManager.remove_role_in_rule
remove_role_in_rule(c, rule_id, role_id, atomic) ==
    remove_rule_in_role(c, rule_id, role_id, atomic)

\* RolesRulesManager.remove_all_roles_in_rule: rule.roles = list(), commit
remove_all_roles_in_rule(c, rule_id) ==
    IF rule_id > max_id_reserved
    THEN IF ~HasId(c.sess.rules, rule_id)
         THEN Out(c, "raise AttributeError")
         ELSE Out(Commit([c EXCEPT !.sess.rr = {x \in @ : x.rule_id /= rule_id}]), "True")
    ELSE Out(c, "ADMIN_RESOURCES")

\* RolesRulesManager.remove_all_rules_in_role: role.rules = list(), commit
remove_all_rules_in_role(c, role_id) ==
    IF role_id > max_id_reserved
    THEN IF ~HasId(c.sess.roles, role_id)
         THEN Out(c, "raise AttributeError")
         ELSE Out(Commit([c EXCEPT !.sess.rr = {x \in @ : x.role_id /= role_id}]), "True")
    ELSE Out(c, "None")

\* RolesRulesManager.replace_rule_role: it returns True without a commit
replace_rule_role(c, rule_id, current_role_id, new_role_id) ==
    IF current_role_id > max_id_reserved
       /\ Truthy(exist_role_rule(c.sess, current_role_id, rule_id))
       /\ HasId(c.sess.roles, new_role_id)
    THEN LET removed == remove_role_in_rule(c, rule_id, current_role_id, FALSE)
         IN IF removed.ret /= "True"
            THEN Out(removed.c, "RELATIONSHIP_ERROR")
            ELSE LET added == add_rule_to_role(removed.c, rule_id, new_role_id, FALSE, FALSE)
                 IN IF added.ret /= "True"
                    THEN Out(added.c, "RELATIONSHIP_ERROR")
                    ELSE Out(added.c, "True")
    ELSE Out(c, "False")

-----------------------------------------------------------------------------
(* TokenManager.  It opens a session of its own in __enter__ and every      *)
(* method commits before it returns, so the three blacklist tables are      *)
(* modelled as committed state.  The clock does not advance during a call.  *)

\* an optional id: {} is None, {i} is the integer i
NoId == {}

\* UsersTokenBlacklist.__init__
UsersTokenBlacklist(user_id, time) ==
    [user_id |-> user_id, nbf_invalid_until |-> time,
     is_valid_until |-> time + auth_token_exp_timeout]

\* RolesTokenBlacklist.__init__
RolesTokenBlacklist(role_id, time) ==
    [role_id |-> role_id, nbf_invalid_until |-> time,
     is_valid_until |-> time + auth_token_exp_timeout]

\* RunAsTokenBlacklist.__init__
RunAsTokenBlacklist(time) ==
    [nbf_invalid_until |-> time, is_valid_until |-> time + auth_token_exp_timeout]

\* query(...).first(): no row when the query is empty, else one of its rows
First(rows) == IF rows = {} THEN {{}} ELSE {{x} : x \in rows}

\* is_token_valid reading the rule of every user, whatever user_id is
is_token_valid_any_user(t, token_nbf_time, user_id, role_id, run_as) ==
    {LET user_rule == t.users
         role_rule == {x \in t.roles : {x.role_id} = role_id}
     IN /\ (user_rule = {} \/ \A x \in user_rule : token_nbf_time > x.nbf_invalid_until)
        /\ (role_rule = {} \/ \A x \in role_rule : token_nbf_time > x.nbf_invalid_until)
        /\ (~run_as \/ (runas_rule = {} \/ \A x \in runas_rule : token_nbf_time > x.nbf_invalid_until))
     : runas_rule \in First(t.runas)}

\* TokenManager.is_token_valid: the possible results (user_id and role_id are
\* primary keys: user_rule and role_rule hold at most one row)
is_token_valid(t, token_nbf_time, user_id, role_id, run_as) ==
    {LET user_rule == {x \in t.users : {x.user_id} = user_id}
         role_rule == {x \in t.roles : {x.role_id} = role_id}
     IN /\ (user_rule = {} \/ \A x \in user_rule : token_nbf_time > x.nbf_invalid_until)
        /\ (role_rule = {} \/ \A x \in role_rule : token_nbf_time > x.nbf_invalid_until)
        /\ (~run_as \/ (runas_rule = {} \/ \A x \in runas_rule : token_nbf_time > x.nbf_invalid_until))
     : runas_rule \in First(t.runas)}

\* TokenManager.delete_rule: the possible tables after it
token_delete_rule(t, user_id, role_id, run_as) ==
    {[users |-> {x \in t.users : {x.user_id} /= user_id},
      roles |-> {x \in t.roles : {x.role_id} /= role_id},
      runas |-> IF run_as THEN t.runas \ run_as_rule ELSE t.runas]
     : run_as_rule \in First(t.runas)}

\* delete_all_expired_rules deleting a rule in the last second of its validity
delete_all_expired_rules_early(t, current_time) ==
    {[users |-> {x \in t.users : ~(current_time >= x.is_valid_until)},
      roles |-> {x \in t.roles : ~(current_time >= x.is_valid_until)},
      runas |-> t.runas \ {x \in runas_token_in_blacklist : x.is_valid_until <= current_time}]
     : runas_token_in_blacklist \in First(t.runas)}

\* TokenManager.delete_all_expired_rules: the possible tables after it
delete_all_expired_rules(t, current_time) ==
    {[users |-> {x \in t.users : ~(current_time > x.is_valid_until)},
      roles |-> {x \in t.roles : ~(current_time > x.is_valid_until)},
      runas |-> t.runas \ {x \in runas_token_in_blacklist : x.is_valid_until < current_time}]
     : runas_token_in_blacklist \in First(t.runas)}

\* per user: delete_rule(user_id), add UsersTokenBlacklist(user_id), commit
\* the loop over users without its delete_rule call
add_users_rules_kept(t, users, time) ==
    [t EXCEPT !.users = @ \cup {UsersTokenBlacklist(u, time) : u \in users}]

add_users_rules(t, users, time) ==
    [t EXCEPT !.users = {x \in @ : x.user_id \notin users}
                        \cup {UsersTokenBlacklist(u, time) : u \in users}]

\* per role: delete_rule(role_id), add RolesTokenBlacklist(role_id), commit
add_roles_rules(t, roles, time) ==
    [t EXCEPT !.roles = {x \in @ : x.role_id \notin roles}
                        \cup {RolesTokenBlacklist(r, time) : r \in roles}]

\* if run_as: delete_rule(run_as), add RunAsTokenBlacklist(), commit.  The
\* primary key nbf_invalid_until of a row left in the table by delete_rule can
\* be the one of the new row: IntegrityError, rollback, ALREADY_EXIST
add_runas_rule(t, run_as, time) ==
    IF ~run_as THEN {[t |-> t, ret |-> "True"]}
    ELSE {IF \E x \in d.runas : x.nbf_invalid_until = time
          THEN [t |-> d, ret |-> "ALREADY_EXIST"]
          ELSE [t |-> [d EXCEPT !.runas = @ \cup {RunAsTokenBlacklist(time)}], ret |-> "True"]
          : d \in token_delete_rule(t, NoId, NoId, TRUE)}

\* TokenManager.add_user_roles_rules: the possible outcomes; clear_cache is
\* called once, before return True
add_user_roles_rules(t, users, roles, run_as, time) ==
    {[t |-> r.t, ret |-> r.ret, clear_cache |-> IF r.ret = "True" THEN 1 ELSE 0]
     : r \in UNION {add_runas_rule(add_roles_rules(add_users_rules(e, users, time), roles, time),
                                   run_as, time)
                    : e \in delete_all_expired_rules(t, time)}}

-----------------------------------------------------------------------------
(* Values passed to and stored by the entity managers *)

\* Python values, tagged with their type
None == [type |-> "NoneType"]
Str(s) == [type |-> "str", s |-> s]
Num(n) == [type |-> "int", n |-> n]
List(items) == [type |-> "list", items |-> items]
Dict(items) == [type |-> "dict", items |-> items]

\* bool(value) of a Python value
PyTruthy(v) ==
    CASE v.type = "NoneType" -> FALSE
      [] v.type = "str" -> v.s /= ""
      [] v.type = "int" -> v.n /= 0
      [] v.type = "list" -> v.items /= <<>>
      [] v.type = "dict" -> DOMAIN v.items /= {}

json_validator(data) == data.type = "dict"

\* json.dumps and json.loads: the text of a value, the value of a text
dumps(v) == [json |-> v]
loads(t) == t.json

\* werkzeug's generate_password_hash
generate_password_hash(password) == [hash |-> password]

\* re.match(action_regex, action) over the strings the calls are made with
MatchesAction(action) == action \in {"agent:read", "agent:delete"}

\* resource.split('&') over the strings the calls are made with
split_amp(resource) ==
    CASE resource = "agent:id:*&bad" -> <<"agent:id:*", "bad">>
      [] OTHER -> <<resource>>

\* re.match(resource_regex, res)
MatchesResource(res) == res \in {"agent:id:*", "*:*:*"}

\* the PRIMARY KEY and UNIQUE constraints of the four entity tables: what a
\* flush checks
\* the primary keys alone, without the UniqueConstraints
IntegrityOk_keys_only(s) ==
    /\ \A a, b \in s.users : a /= b => a.id /= b.id
    /\ \A a, b \in s.roles : a /= b => a.id /= b.id
    /\ \A a, b \in s.rules : a /= b => a.id /= b.id
    /\ \A a, b \in s.policies : a /= b => a.id /= b.id

IntegrityOk(s) ==
    /\ \A a, b \in s.users : a /= b => a.id /= b.id /\ a.name /= b.name
    /\ \A a, b \in s.roles : a /= b => a.id /= b.id /\ a.name /= b.name
    /\ \A a, b \in s.rules : a /= b => a.id /= b.id /\ a.name /= b.name
    /\ \A a, b \in s.policies :
           a /= b => a.id /= b.id /\ a.name /= b.name /\ a.policy /= b.policy

\* session.add(row); session.commit() with `except IntegrityError:
\* session.rollback(); return err`
Insert(c, table, row, err) ==
    LET s1 == [c.sess EXCEPT ![table] = @ \cup {row}] IN
    IF row \notin c.sess[table] /\ IntegrityOk(s1)
    THEN Out(Commit([c EXCEPT !.sess = s1]), "True")
    ELSE Out(Rollback(c), err)

\* the id of a new row: an optional id ({} is None); SQLite gives a row
\* without id the largest id plus one
RowId(table, id) ==
    IF id /= {} THEN CHOOSE x \in id : TRUE
    ELSE IF table = {} THEN 1
    ELSE Max({e.id : e \in table}) + 1

\* `if check_default and query.order_by(desc(id)).limit(1).scalar().id <
\* max_id_reserved: id = max_id_reserved + 1`; an empty table raises
\* AttributeError, which is passed over
DefaultChecked(table, id, check_default) ==
    IF check_default /\ table /= {} /\ Max({e.id : e \in table}) < max_id_reserved
    THEN {max_id_reserved + 1}
    ELSE id

\* session.query(...).filter_by(id=i).first() and the row with a field changed
Row(table, i) == CHOOSE e \in table : e.id = i
SetField(s, table, i, field, value) ==
    [s EXCEPT ![table] = (@ \ {Row(@, i)}) \cup {[Row(@, i) EXCEPT ![field] = value]}]

\* an optional value applied to a field: {} leaves the field as it is
SetOpt(s, table, i, field, opt) ==
    IF opt = {} THEN s ELSE SetField(s, table, i, field, CHOOSE x \in opt : TRUE)

\* session.commit() with `except IntegrityError: session.rollback(); return err`
CommitOr(c, s1, err) ==
    IF IntegrityOk(s1)
    THEN Out(Commit([c EXCEPT !.sess = s1]), "True")
    ELSE Out(Rollback(c), err)

-----------------------------------------------------------------------------
(* AuthenticationManager: add, update, edit_run_as *)

add_user(c, username, password, user_id, hash_password, created_at, resource_type, check_default) ==
    LET id == DefaultChecked(c.sess.users, user_id, check_default) IN
    Insert(c, "users",
           [id |-> RowId(c.sess.users, id),
            name |-> username,
            password |-> IF hash_password THEN password ELSE generate_password_hash(password),
            allow_run_as |-> FALSE,
            resource_type |-> resource_type,
            created_at |-> created_at],
           "False")

\* password: {} is a falsy password (None or ''); resource_type: {} is None
update_user(c, user_id, password, resource_type) ==
    IF ~IntegrityOk(c.sess) THEN Out(Rollback(c), "False")
    ELSE IF ~HasId(c.sess.users, user_id) THEN Out(c, "False")
    ELSE LET s1 == SetOpt(c.sess, "users", user_id, "resource_type", resource_type)
             s2 == SetOpt(s1, "users", user_id, "password",
                          {generate_password_hash(p) : p \in password})
         IN IF password /= {} \/ resource_type /= {}
            THEN Out(Commit([c EXCEPT !.sess = s2]), "True")
            ELSE Out(c, "False")

\* allow_run_as is a Python value: only a bool is stored
edit_run_as(c, user_id, allow_run_as) ==
    IF ~IntegrityOk(c.sess) THEN Out(Rollback(c), "False")
    ELSE IF ~HasId(c.sess.users, user_id) THEN Out(c, "False")
    ELSE IF allow_run_as \notin BOOLEAN THEN Out(c, "INVALID")
    ELSE Out(Commit([c EXCEPT !.sess = SetField(@, "users", user_id, "allow_run_as", allow_run_as)]),
             "True")

-----------------------------------------------------------------------------
(* RolesManager: add, update *)

add_role(c, name, role_id, created_at, resource_type, check_default) ==
    LET id == DefaultChecked(c.sess.roles, role_id, check_default) IN
    Insert(c, "roles",
           [id |-> RowId(c.sess.roles, id),
            name |-> name,
            resource_type |-> resource_type,
            created_at |-> created_at],
           "ALREADY_EXIST")

\* name and resource_type: {} is None
\* update_role without its reserved-id check
update_role_unguarded(c, role_id, name, resource_type) ==
    IF ~IntegrityOk(c.sess) THEN Out(Rollback(c), "ALREADY_EXIST")
    ELSE IF ~HasId(c.sess.roles, role_id) THEN Out(c, "ROLE_NOT_EXIST")
    ELSE LET s1 == SetOpt(c.sess, "roles", role_id, "name", name)
             s2 == SetOpt(s1, "roles", role_id, "resource_type", resource_type)
         IN IF name /= {} \/ resource_type /= {}
            THEN CommitOr(c, s2, "ALREADY_EXIST")
            ELSE Out(c, "ROLE_NOT_EXIST")

update_role(c, role_id, name, resource_type) ==
    IF ~(role_id > max_id_reserved) THEN Out(c, "ADMIN_RESOURCES")
    ELSE IF ~IntegrityOk(c.sess) THEN Out(Rollback(c), "ALREADY_EXIST")
    ELSE IF ~HasId(c.sess.roles, role_id) THEN Out(c, "ROLE_NOT_EXIST")
    ELSE LET s1 == SetOpt(c.sess, "roles", role_id, "name", name)
             s2 == SetOpt(s1, "roles", role_id, "resource_type", resource_type)
         IN IF name /= {} \/ resource_type /= {}
            THEN CommitOr(c, s2, "ALREADY_EXIST")
            ELSE Out(c, "ROLE_NOT_EXIST")

-----------------------------------------------------------------------------
(* RulesManager: add, update *)

\* the default of Rules.__init__, created_at=get_utc_now(): the time at which
\* the running process imported the module
imported_at == 2

\* add_rule in a process that imported the module at time imported.  rule is a
\* Python value; created_at is not passed on to Rules(), which takes its default
add_rule_in(c, name, rule, rule_id, created_at, resource_type, check_default, imported) ==
    IF rule /= None /\ ~json_validator(rule) THEN Out(c, "INVALID")
    ELSE LET id == DefaultChecked(c.sess.rules, rule_id, check_default) IN
         Insert(c, "rules",
                [id |-> RowId(c.sess.rules, id),
                 name |-> name,
                 rule |-> dumps(rule),
                 resource_type |-> resource_type,
                 created_at |-> imported],
                "ALREADY_EXIST")

add_rule(c, name, rule, rule_id, created_at, resource_type, check_default) ==
    add_rule_in(c, name, rule, rule_id, created_at, resource_type, check_default, imported_at)

update_rule(c, rule_id, name, rule, resource_type) ==
    IF ~(rule_id > max_id_reserved) THEN Out(c, "ADMIN_RESOURCES")
    ELSE IF ~IntegrityOk(c.sess) THEN Out(Rollback(c), "ALREADY_EXIST")
    ELSE IF ~HasId(c.sess.rules, rule_id) THEN Out(c, "RULE_NOT_EXIST")
    ELSE IF ~json_validator(rule) THEN Out(c, "INVALID")
    ELSE LET s1 == SetOpt(c.sess, "rules", rule_id, "name", name)
             s2 == SetField(s1, "rules", rule_id, "rule", dumps(rule))
             s3 == SetOpt(s2, "rules", rule_id, "resource_type", resource_type)
         IN IF PyTruthy(rule) \/ name /= {} \/ resource_type /= {}
            THEN CommitOr(c, s3, "ALREADY_EXIST")
            ELSE Out([c EXCEPT !.sess = s3], "RULE_NOT_EXIST")

-----------------------------------------------------------------------------
(* PoliciesManager: add, update *)

HasKey(policy, key) == key \in DOMAIN policy.items

\* the two `for` loops over policy['actions'] and policy['resources']: TRUE
\* if one of them returns INVALID
BadItems(policy) ==
    \/ \E i \in DOMAIN policy.items.actions.items :
           ~MatchesAction(policy.items.actions.items[i])
    \/ \E i \in DOMAIN policy.items.resources.items :
           \E j \in DOMAIN split_amp(policy.items.resources.items[i]) :
               ~MatchesResource(split_amp(policy.items.resources.items[i])[j])

\* `policy_id or max(filter(lambda x: not (x > cloud_reserved_range),
\* sorted(ids) or [0])) + 1` of the check_default=False branch; the empty set
\* is the ValueError of max() of an empty filter
UncheckedPolicyId(table, policy_id) ==
    IF policy_id /= {} /\ policy_id /= {0} THEN policy_id
    ELSE LET ids == IF table = {} THEN {0} ELSE {e.id : e \in table}
             low == {x \in ids : ~(x > cloud_reserved_range)}
         IN IF low = {} THEN {} ELSE {Max(low) + 1}

\* policy is a Python value
add_policy(c, name, policy, policy_id, created_at, resource_type, check_default) ==
    IF policy /= None /\ ~json_validator(policy) THEN Out(c, "ALREADY_EXIST")
    ELSE IF policy = None \/ Cardinality(DOMAIN policy.items) /= 3 THEN Out(c, "INVALID")
    ELSE IF ~(HasKey(policy, "actions") /\ HasKey(policy, "resources")) THEN Out(c, "INVALID")
    ELSE IF ~HasKey(policy, "effect") THEN Out(c, "INVALID")
    ELSE IF ~(/\ policy.items.actions.type = "list"
              /\ policy.items.resources.type = "list"
              /\ policy.items.effect.type = "str")
    THEN Out(c, "INVALID")
    ELSE IF BadItems(policy) THEN Out(c, "INVALID")
    ELSE IF ~IntegrityOk(c.sess) THEN Out(Rollback(c), "ALREADY_EXIST")
    ELSE LET id == IF ~check_default
                   THEN UncheckedPolicyId(c.sess.policies, policy_id)
                   ELSE DefaultChecked(c.sess.policies, policy_id, check_default)
         IN IF ~check_default /\ id = {} THEN Out(c, "ValueError")
            ELSE Insert(c, "policies",
                        [id |-> RowId(c.sess.policies, id),
                         name |-> name,
                         policy |-> dumps(policy),
                         resource_type |-> resource_type,
                         created_at |-> created_at],
                        "ALREADY_EXIST")

\* name and resource_type: {} is None; policy is a Python value
update_policy(c, policy_id, name, policy, resource_type, check_default) ==
    IF ~(policy_id > max_id_reserved \/ ~check_default) THEN Out(c, "ADMIN_RESOURCES")
    ELSE IF ~IntegrityOk(c.sess) THEN Out(Rollback(c), "ALREADY_EXIST")
    ELSE IF ~HasId(c.sess.policies, policy_id) THEN Out(c, "POLICY_NOT_EXIST")
    ELSE IF ~json_validator(policy) THEN Out(c, "INVALID")
    ELSE LET s1 == SetOpt(c.sess, "policies", policy_id, "name", name)
             has_keys == /\ HasKey(policy, "actions")
                         /\ HasKey(policy, "resources")
                         /\ HasKey(policy, "effect")
             s2 == IF has_keys
                   THEN SetField(s1, "policies", policy_id, "policy", dumps(policy))
                   ELSE s1
             s3 == SetOpt(s2, "policies", policy_id, "resource_type", resource_type)
         IN IF has_keys /\ BadItems(policy)
            \* the name is already set on the row when the loop returns
            THEN Out([c EXCEPT !.sess = s1], "INVALID")
            ELSE IF name /= {} \/ PyTruthy(policy) \/ resource_type /= {}
            THEN CommitOr(c, s3, "ALREADY_EXIST")
            ELSE Out([c EXCEPT !.sess = s3], "POLICY_NOT_EXIST")

-----------------------------------------------------------------------------
(* DatabaseManager: default resources *)

The(S) == CHOOSE x \in S : TRUE

\* the statements of a method run one after the other: F of the value x
Then(x, F(_)) == The({F(y) : y \in {x}})

\* a policy body add_policy accepts
Body(action, effect) ==
    Dict([actions |-> List(<<action>>),
          resources |-> List(<<"agent:id:*">>),
          effect |-> Str(effect)])

\* rbac/default/*.yaml of an API revision: the names of the default users,
\* roles and rules, and the default policies; revision expected_version adds
\* role 2 and policy 2 to those of the revision before it
default_yaml(revision) ==
    [users |-> <<1>>,
     roles |-> IF revision < expected_version THEN <<1>> ELSE <<1, 2>>,
     rules |-> <<1, 2>>,
     policies |-> IF revision < expected_version
                  THEN <<[name |-> 1, policy |-> Body("agent:read", "allow")]>>
                  ELSE <<[name |-> 1, policy |-> Body("agent:read", "allow")],
                         [name |-> 2, policy |-> Body("agent:read", "deny")]>>]

\* the tables of a database after create_database
EmptyStore ==
    [users |-> {}, roles |-> {}, rules |-> {}, policies |-> {},
     ur |-> {}, rp |-> {}, rr |-> {}]

RECURSIVE default_users_loop(_, _, _)
default_users_loop(c, names, i) ==
    IF i > Len(names) THEN c
    ELSE Then(add_user(c, names[i], "wazuh", {}, FALSE, 0, "default", FALSE).c, LAMBDA c1 :
         Then(edit_run_as(c1, The(IdsNamed(c1.sess.users, names[i])), TRUE).c, LAMBDA c2 :
         default_users_loop(c2, names, i + 1)))

RECURSIVE default_roles_loop(_, _, _)
default_roles_loop(c, names, i) ==
    IF i > Len(names) THEN c
    ELSE Then(add_role(c, names[i], {}, 0, "default", FALSE).c, LAMBDA c1 :
         default_roles_loop(c1, names, i + 1))

RECURSIVE default_rules_loop(_, _, _)
default_rules_loop(c, names, i) ==
    IF i > Len(names) THEN c
    ELSE Then(add_rule(c, names[i], Dict([FIND |-> Str("r")]), {}, 0, "default", FALSE).c,
              LAMBDA c1 : default_rules_loop(c1, names, i + 1))

RECURSIVE default_policies_loop(_, _, _)
default_policies_loop(c, policies, i) ==
    IF i > Len(policies) THEN c
    ELSE Then(add_policy(c, policies[i].name, policies[i].policy, {}, 0, "default", FALSE).c,
              LAMBDA c1 : default_policies_loop(c1, policies, i + 1))

\* relationships.yaml: role 1 holds every default policy, in order
RECURSIVE default_role_policies_loop(_, _, _)
default_role_policies_loop(c, policies, i) ==
    IF i > Len(policies) THEN c
    ELSE Then(The(add_policy_to_role(c, The(IdsNamed(c.sess.roles, 1)),
                                     The(IdsNamed(c.sess.policies, policies[i].name)),
                                     NoPos, TRUE, TRUE)).c,
              LAMBDA c1 : default_role_policies_loop(c1, policies, i + 1))

\* DatabaseManager.insert_default_resources on the tables of a database just
\* created: every add succeeds, so the branch that refreshes a policy that is
\* already there is not taken.  relationships.yaml gives user 1 the role 1,
\* and role 1 the default policies and the rules 1 and 2
insert_default_resources(c, yaml) ==
    Then(Rollback(default_users_loop(c, yaml.users, 1)), LAMBDA c1 :
    Then(Rollback(default_roles_loop(c1, yaml.roles, 1)), LAMBDA c2 :
    Then(Rollback(default_rules_loop(c2, yaml.rules, 1)), LAMBDA c3 :
    Then(Rollback(default_policies_loop(c3, yaml.policies, 1)), LAMBDA c4 :
    Then(The(add_role_to_user(c4, The(IdsNamed(c4.sess.users, 1)),
                              The(IdsNamed(c4.sess.roles, 1)), NoPos, TRUE, TRUE)).c, LAMBDA c5 :
    Then(default_role_policies_loop(c5, yaml.policies, 1), LAMBDA c6 :
    Then(add_rule_to_role(c6, The(IdsNamed(c6.sess.rules, 1)),
                          The(IdsNamed(c6.sess.roles, 1)), TRUE, TRUE).c, LAMBDA c7 :
    Then(add_rule_to_role(c7, The(IdsNamed(c7.sess.rules, 2)),
                          The(IdsNamed(c7.sess.roles, 1)), TRUE, TRUE).c, LAMBDA c8 :
    Rollback(c8)))))))))

\* a database file just created and seeded
Fresh(s) == [sess |-> s, db |-> s]
DefaultStore(revision) == insert_default_resources(Fresh(EmptyStore), default_yaml(revision)).db

-----------------------------------------------------------------------------
(* DatabaseManager.migrate_data *)

\* the filter of get_data on one column; from_id and to_id are optional ({} is
\* None).  The branch taken when only to_id is given compares with from_id,
\* that is with NULL, and selects nothing
InRange(x, from_id, to_id) ==
    IF from_id /= {} /\ to_id /= {} THEN The(from_id) <= x /\ x <= The(to_id)
    ELSE IF from_id /= {} THEN x >= The(from_id)
    ELSE FALSE

\* .order_by(col).all(): the orders in which the rows can be returned (rows
\* with the same value of col in any order)
OrderedBy(rows, col) ==
    {f \in Perms(rows) : \A i, j \in 1..Cardinality(rows) : i < j => f[i][col] <= f[j][col]}

\* get_data(table, table.id)
get_data(s, table, from_id, to_id) ==
    The(OrderedBy({e \in s[table] : InRange(e.id, from_id, to_id)}, "id"))

\* get_data(table, col_a, col_b) of a relationship table: the possible results
get_data_rel(s, table, col_a, col_b, from_id, to_id) ==
    OrderedBy({x \in s[table] : InRange(x[col_a], from_id, to_id)
                                \/ InRange(x[col_b], from_id, to_id)}, col_a)

RECURSIVE migrate_users(_, _, _, _)
migrate_users(c, old_users, i, resource_type) ==
    IF i > Len(old_users) THEN Rollback(c)
    ELSE Then(add_user(c, old_users[i].name, old_users[i].password, {old_users[i].id}, TRUE,
                       old_users[i].created_at, resource_type, FALSE).c, LAMBDA c1 :
         Then(edit_run_as(c1, old_users[i].id, old_users[i].allow_run_as).c, LAMBDA c2 :
         migrate_users(c2, old_users, i + 1, resource_type)))

RECURSIVE migrate_roles(_, _, _, _)
migrate_roles(c, old_roles, i, resource_type) ==
    IF i > Len(old_roles) THEN Rollback(c)
    ELSE Then(add_role(c, old_roles[i].name, {old_roles[i].id}, old_roles[i].created_at,
                       resource_type, FALSE).c,
              LAMBDA c1 : migrate_roles(c1, old_roles, i + 1, resource_type))

RECURSIVE migrate_rules(_, _, _, _)
migrate_rules(c, old_rules, i, resource_type) ==
    IF i > Len(old_rules) THEN Rollback(c)
    ELSE Then(add_rule(c, old_rules[i].name, loads(old_rules[i].rule), {old_rules[i].id},
                       old_rules[i].created_at, resource_type, FALSE).c,
              LAMBDA c1 : migrate_rules(c1, old_rules, i + 1, resource_type))

\* the loop over old_policies.  When add_policy returns ALREADY_EXIST the
\* branch begins with self.get_table(source, RolesPolicies): source is the
\* path of the database, a str, and session.query on it raises AttributeError,
\* which get_table does not catch; the statements after it are never reached.
\* The result is the target and whether the exception was raised
RECURSIVE migrate_policies(_, _, _, _)
migrate_policies(c, old_policies, i, resource_type) ==
    IF i > Len(old_policies) THEN [c |-> Rollback(c), raised |-> FALSE]
    ELSE Then(add_policy(c, old_policies[i].name, loads(old_policies[i].policy),
                         {old_policies[i].id}, old_policies[i].created_at, resource_type, FALSE),
              LAMBDA status :
                  IF status.ret \in {"ALREADY_EXIST", "CONSTRAINT_ERROR"}
                  THEN [c |-> Rollback(status.c), raised |-> TRUE]
                  ELSE migrate_policies(status.c, old_policies, i + 1, resource_type))

\* the endpoint taken with the id it has in the source
TargetId_same_id(source, c, table, id) == {id}

\* the id in the target of an endpoint of a source row: an endpoint with
\* id <= max_id_reserved is looked up by its source name ({} when the target
\* has no entity of that name: the subscript raises TypeError and the row is
\* skipped)
TargetId(source, c, table, id) ==
    IF id <= max_id_reserved
    THEN IdsNamed(c.sess[table], Row(source[table], id).name)
    ELSE {id}

\* one iteration of the loop over old_user_roles: the possible targets
migrate_user_role(source, c, user_role) ==
    LET user_id == TargetId(source, c, "users", user_role.user_id)
        role_id == TargetId(source, c, "roles", user_role.role_id)
    IN IF user_id = {} \/ role_id = {} THEN {c}
       ELSE {out.c : out \in add_role_to_user(c, The(user_id), The(role_id),
                                               {user_role.level}, TRUE, TRUE)}

RECURSIVE migrate_user_roles(_, _, _, _)
migrate_user_roles(source, cs, old_user_roles, i) ==
    IF i > Len(old_user_roles) THEN {Rollback(c) : c \in cs}
    ELSE Then(UNION {migrate_user_role(source, c, old_user_roles[i]) : c \in cs},
              LAMBDA cs1 : migrate_user_roles(source, cs1, old_user_roles, i + 1))

\* one iteration of the loop over old_roles_policies
migrate_role_policy(source, c, role_policy) ==
    LET role_id == TargetId(source, c, "roles", role_policy.role_id)
        policy_id == TargetId(source, c, "policies", role_policy.policy_id)
    IN IF role_id = {} \/ policy_id = {} THEN {c}
       ELSE {out.c : out \in add_policy_to_role(c, The(role_id), The(policy_id),
                                                 {role_policy.level}, TRUE, TRUE)}

RECURSIVE migrate_roles_policies(_, _, _, _)
migrate_roles_policies(source, cs, old_roles_policies, i) ==
    IF i > Len(old_roles_policies) THEN {Rollback(c) : c \in cs}
    ELSE Then(UNION {migrate_role_policy(source, c, old_roles_policies[i]) : c \in cs},
              LAMBDA cs1 : migrate_roles_policies(source, cs1, old_roles_policies, i + 1))

\* one iteration of the loop over old_roles_rules
migrate_role_rule(source, c, role_rule) ==
    LET role_id == TargetId(source, c, "roles", role_rule.role_id)
        rule_id == TargetId(source, c, "rules", role_rule.rule_id)
    IN IF role_id = {} \/ rule_id = {} THEN c
       ELSE add_rule_to_role(c, The(rule_id), The(role_id), TRUE, TRUE).c

RECURSIVE migrate_roles_rules(_, _, _, _)
migrate_roles_rules(source, cs, old_roles_rules, i) ==
    IF i > Len(old_roles_rules) THEN {Rollback(c) : c \in cs}
    ELSE Then({migrate_role_rule(source, c, old_roles_rules[i]) : c \in cs},
              LAMBDA cs1 : migrate_roles_rules(source, cs1, old_roles_rules, i + 1))

\* DatabaseManager.migrate_data: source is the tables of the source database,
\* c the session and file of the target.  The possible results: the target and
\* whether an exception left the method
migrate_data(source, c, from_id, to_id, resource_type) ==
    Then(migrate_users(c, get_data(source, "users", from_id, to_id), 1, resource_type), LAMBDA c1 :
    Then(migrate_roles(c1, get_data(source, "roles", from_id, to_id), 1, resource_type), LAMBDA c2 :
    Then(migrate_rules(c2, get_data(source, "rules", from_id, to_id), 1, resource_type), LAMBDA c3 :
    Then(migrate_policies(c3, get_data(source, "policies", from_id, to_id), 1, resource_type), LAMBDA p :
    IF p.raised THEN {p}
    ELSE
    Then(UNION {migrate_user_roles(source, {p.c}, old, 1)
                : old \in get_data_rel(source, "ur", "user_id", "role_id", from_id, to_id)}, LAMBDA cs1 :
    Then(UNION {migrate_roles_policies(source, cs1, old, 1)
                : old \in get_data_rel(source, "rp", "role_id", "policy_id", from_id, to_id)}, LAMBDA cs2 :
    Then(UNION {migrate_roles_rules(source, cs2, old, 1)
                : old \in get_data_rel(source, "rr", "role_id", "rule_id", from_id, to_id)}, LAMBDA cs3 :
    {[c |-> c4, raised |-> FALSE] : c4 \in cs3})))))))

-----------------------------------------------------------------------------
(* State after construction: the default resources (ids <= max_id_reserved,   *)
(* role 1 bound to rules 1 and 2) and user-created users, roles, rules and    *)
(* policies, not yet related to anything.                                     *)

Entity(i) == [id |-> i, name |-> i]

InitStore ==
    [users |-> {Entity(i) : i \in UserIds},
     roles |-> {Entity(i) : i \in RoleIds},
     rules |-> {Entity(i) : i \in RuleIds},
     policies |-> {Entity(i) : i \in PolicyIds},
     ur |-> {[user_id |-> 1, role_id |-> 1, level |-> 0]},
     rp |-> {[role_id |-> 1, policy_id |-> 1, level |-> 0]},
     rr |-> {[role_id |-> 1, rule_id |-> 1], [role_id |-> 1, rule_id |-> 2]}]

\* the label of a call: its name and the arguments the properties read (0: none)
Call(name, a) == [name |-> name, a |-> a]

Init ==
    /\ db = InitStore
    /\ sess = InitStore
    /\ op = Call("init", 0)
    /\ ret = "None"
    /\ cache_calls = 0
    /\ users_tb = {}
    /\ roles_tb = {}
    /\ runas_tb = {}
    /\ now = 0
    /\ callers = [p \in Callers |-> [pc |-> "idle", ret |-> "None"]]
    /\ issued = [user |-> [u \in TokUsers |-> {}], role |-> [r \in TokRoles |-> {}], run_as |-> {}]
    /\ alist = [ur |-> <<>>, rp |-> <<>>]
    /\ rbac = [exists |-> TRUE, user_version |-> expected_version]
    /\ tmp = {}
    /\ pc = "done"

Ctx == [sess |-> sess, db |-> db]

\* a call of a store manager: what it leaves in the session and in the file,
\* and what it returns; none of them calls clear_cache
Returns(out, call) ==
    /\ sess' = out.c.sess
    /\ db' = out.c.db
    /\ ret' = out.ret
    /\ op' = call
    /\ cache_calls' = 0
    /\ UNCHANGED <<tokenVars, fileVars>>

Apply(out, call) ==
    /\ Returns(out, call)
    /\ UNCHANGED alist

\* __exit__ of a manager used as a context manager: session.close()
Exit ==
    /\ sess /= db
    /\ \E out \in {Out(Rollback(Ctx), "None")} :
           Apply(out, Call("__exit__", 0))

-----------------------------------------------------------------------------
(* Calls of the entity managers *)

DeleteUser ==
    \E i \in UserIds :
        \E out \in {delete_user(Ctx, i)} :
            Apply(out, Call("delete_user", i))

DeleteRole ==
    \E i \in RoleIds :
        \E out \in {delete_role(Ctx, i)} :
            Apply(out, Call("delete_role", i))

DeleteRule ==
    \E i \in RuleIds :
        \E out \in {delete_rule(Ctx, i)} :
            Apply(out, Call("delete_rule", i))

DeletePolicy ==
    \E i \in PolicyIds :
        \E out \in {delete_policy(Ctx, i)} :
            Apply(out, Call("delete_policy", i))

DeleteRoleByName ==
    \E n \in RoleIds \cup {0} :
        \E out \in {delete_role_by_name(Ctx, n)} :
            Apply(out, Call("delete_role_by_name", n))

DeleteRuleByName ==
    \E n \in RuleIds \cup {0} :
        \E out \in {delete_rule_by_name(Ctx, n)} :
            Apply(out, Call("delete_rule_by_name", n))

DeletePolicyByName ==
    \E n \in PolicyIds \cup {0} :
        \E out \in {delete_policy_by_name(Ctx, n)} :
            Apply(out, Call("delete_policy_by_name", n))

DeleteAllRoles ==
    \E out \in {delete_all_roles(Ctx)} :
        Apply(out, Call("delete_all_roles", 0))

DeleteAllRules ==
    \E out \in {delete_all_rules(Ctx)} :
        Apply(out, Call("delete_all_rules", 0))

DeleteAllPolicies ==
    \E out \in {delete_all_policies(Ctx)} :
        Apply(out, Call("delete_all_policies", 0))

-----------------------------------------------------------------------------
(* Calls of UserRolesManager *)

AddRoleToUser ==
    \E u \in URUsers, r \in URRoles, pos \in {NoPos} \cup ExplicitPos, fa \in BOOLEAN :
        \E out \in add_role_to_user(Ctx, u, r, pos, fa, TRUE) :
            Apply(out, Call("add_role_to_user", 0))

AddUserToRole ==
    \E u \in URUsers, r \in URRoles, pos \in {{default_position}} \cup ExplicitPos :
        \E out \in add_user_to_role(Ctx, u, r, pos, TRUE) :
            Apply(out, Call("add_user_to_role", 0))

RemoveRoleInUser ==
    \E u \in URUsers, r \in URRoles :
        \E out \in {remove_role_in_user(Ctx, u, r, TRUE)} :
            Apply(out, Call("remove_role_in_user", 0))

RemoveUserInRole ==
    \E u \in URUsers, r \in URRoles :
        \E out \in {remove_user_in_role(Ctx, u, r, TRUE)} :
            Apply(out, Call("remove_user_in_role", 0))

RemoveAllRolesInUser ==
    \E u \in URUsers :
        \E out \in remove_all_roles_in_user(Ctx, u) :
            Apply(out, Call("remove_all_roles_in_user", u))

RemoveAllUsersInRole ==
    \E r \in URRoles :
        \E out \in remove_all_users_in_role(Ctx, r) :
            Apply(out, Call("remove_all_users_in_role", r))

ReplaceUserRole ==
    \E u \in URUsers, r \in URRoles, n \in URRoles, pos \in {{default_position}} \cup ExplicitPos :
        \E out \in replace_user_role(Ctx, u, r, n, pos) :
            Apply(out, Call("replace_user_role", 0))

-----------------------------------------------------------------------------
(* Calls of RolesPoliciesManager *)

AddPolicyToRole ==
    \E r \in RPRoles, p \in RPPolicies, pos \in {NoPos} \cup ExplicitPos, fa \in BOOLEAN :
        \E out \in add_policy_to_role(Ctx, r, p, pos, fa, TRUE) :
            Apply(out, Call("add_policy_to_role", 0))

AddRoleToPolicy ==
    \E r \in RPRoles, p \in RPPolicies, pos \in {NoPos} \cup ExplicitPos, fa \in BOOLEAN :
        \E out \in add_role_to_policy(Ctx, p, r, pos, fa, TRUE) :
            Apply(out, Call("add_role_to_policy", 0))

RemovePolicyInRole ==
    \E r \in RPRoles, p \in RPPolicies :
        \E out \in {remove_policy_in_role(Ctx, r, p, TRUE)} :
            Apply(out, Call("remove_policy_in_role", 0))

RemoveRoleInPolicy ==
    \E r \in RPRoles, p \in RPPolicies :
        \E out \in {remove_role_in_policy(Ctx, r, p, TRUE)} :
            Apply(out, Call("remove_role_in_policy", 0))

RemoveAllPoliciesInRole ==
    \E r \in RPRoles :
        \E out \in remove_all_policies_in_role(Ctx, r) :
            Apply(out, Call("remove_all_policies_in_role", r))

RemoveAllRolesInPolicy ==
    \E p \in RPPolicies :
        \E out \in remove_all_roles_in_policy(Ctx, p) :
            Apply(out, Call("remove_all_roles_in_policy", p))

ReplaceRolePolicy ==
    \E r \in RPRoles, p \in RPPolicies, n \in RPPolicies :
        \E out \in replace_role_policy(Ctx, r, p, n) :
            Apply(out, Call("replace_role_policy", 0))

-----------------------------------------------------------------------------
(* Calls of RolesRulesManager through the normal API (force_admin is False) *)

AddRuleToRole ==
    \E x \in RuleIds, r \in RoleIds :
        \E out \in {add_rule_to_role(Ctx, x, r, TRUE, FALSE)} :
            Apply(out, Call("add_rule_to_role", 0))

RemoveRuleInRole ==
    \E x \in RuleIds, r \in RoleIds :
        \E out \in {remove_rule_in_role(Ctx, x, r, TRUE)} :
            Apply(out, Call("remove_rule_in_role", <<x, r>>))

RemoveRoleInRule ==
    \E x \in RuleIds, r \in RoleIds :
        \E out \in {remove_role_in_rule(Ctx, x, r, TRUE)} :
            Apply(out, Call("remove_role_in_rule", <<x, r>>))

RemoveAllRolesInRule ==
    \E x \in RuleIds :
        \E out \in {remove_all_roles_in_rule(Ctx, x)} :
            Apply(out, Call("remove_all_roles_in_rule", x))

RemoveAllRulesInRole ==
    \E r \in RoleIds :
        \E out \in {remove_all_rules_in_role(Ctx, r)} :
            Apply(out, Call("remove_all_rules_in_role", r))

ReplaceRuleRole ==
    \E x \in RuleIds, r \in RoleIds, n \in RoleIds :
        \E out \in {replace_rule_role(Ctx, x, r, n)} :
            Apply(out, Call("replace_rule_role", 0))

-----------------------------------------------------------------------------
(* Calls of TokenManager and the clock *)

Tok == [users |-> users_tb, roles |-> roles_tb, runas |-> runas_tb]

\* a Python bool as the result of a call
Bool(b) == IF b THEN "True" ELSE "False"

\* time passes between two calls
Tick ==
    /\ now < MaxTime
    /\ now' = now + 1
    /\ UNCHANGED <<storeVars, op, ret, cache_calls, users_tb, roles_tb, runas_tb, issued, callers, alist, fileVars>>

AddUserRolesRules ==
    \E users \in SUBSET TokUsers, roles \in SUBSET TokRoles, run_as \in BOOLEAN :
        \E out \in add_user_roles_rules(Tok, users, roles, run_as, now) :
            /\ users_tb' = out.t.users
            /\ roles_tb' = out.t.roles
            /\ runas_tb' = out.t.runas
            /\ ret' = out.ret
            /\ cache_calls' = out.clear_cache
            /\ op' = Call("add_user_roles_rules", 0)
            /\ issued' = [user |-> [u \in TokUsers |-> IF u \in users THEN {now} ELSE issued.user[u]],
                          role |-> [r \in TokRoles |-> IF r \in roles THEN {now} ELSE issued.role[r]],
                          run_as |-> IF run_as /\ out.ret = "True" THEN {now} ELSE issued.run_as]
            /\ UNCHANGED <<storeVars, now, callers, alist, fileVars>>

DeleteAllExpiredRules ==
    \E t \in delete_all_expired_rules(Tok, now) :
        /\ users_tb' = t.users
        /\ roles_tb' = t.roles
        /\ runas_tb' = t.runas
        /\ ret' = "List"
        /\ cache_calls' = 0
        /\ op' = Call("delete_all_expired_rules", 0)
        /\ UNCHANGED <<storeVars, now, callers, issued, alist, fileVars>>

IsTokenValid ==
    \E token_nbf_time \in 0..MaxTime,
       user_id \in {NoId} \cup {{u} : u \in TokUsers},
       role_id \in {NoId} \cup {{r} : r \in TokRoles},
       run_as \in BOOLEAN :
        \E valid \in is_token_valid(Tok, token_nbf_time, user_id, role_id, run_as) :
            /\ ret' = Bool(valid)
            /\ cache_calls' = 0
            /\ op' = Call("is_token_valid", <<token_nbf_time, user_id, role_id, run_as>>)
            /\ UNCHANGED <<storeVars, tokenVars, alist, fileVars>>

-----------------------------------------------------------------------------
(* Add and remove calls on one parent of each ordered relationship (user 100, *)
(* role 100), with the abstract list the same calls build                     *)

\* insert-at-index, an index past the end appending
InsertAt(seq, i, x) ==
    IF i >= Len(seq) THEN Append(seq, x)
    ELSE SubSeq(seq, 1, i) \o <<x>> \o SubSeq(seq, i + 1, Len(seq))

\* delete-element
DeleteElem(seq, x) == SelectSeq(seq, LAMBDA y : y /= x)

\* the abstract add: append without a position, insert-at-index with one
AbstractAdd(seq, x, position) ==
    IF position = NoPos THEN Append(seq, x)
    ELSE InsertAt(seq, CHOOSE i \in position : TRUE, x)

ListAddRole ==
    \E r \in URRoles, pos \in {NoPos} \cup ExplicitPos :
        \E out \in add_role_to_user(Ctx, 100, r, pos, FALSE, TRUE) :
            /\ Returns(out, Call("add_role_to_user", 0))
            /\ alist' = IF out.ret = "True"
                        THEN [alist EXCEPT !.ur = AbstractAdd(@, r, pos)]
                        ELSE alist

ListRemoveRole ==
    \E r \in URRoles :
        \E out \in {remove_role_in_user(Ctx, 100, r, TRUE)} :
            /\ Returns(out, Call("remove_role_in_user", 0))
            /\ alist' = IF out.ret = "True"
                        THEN [alist EXCEPT !.ur = DeleteElem(@, r)]
                        ELSE alist

ListAddPolicy ==
    \E p \in RPPolicies, pos \in {NoPos} \cup ExplicitPos :
        \E out \in add_policy_to_role(Ctx, 100, p, pos, FALSE, TRUE) :
            /\ Returns(out, Call("add_policy_to_role", 0))
            /\ alist' = IF out.ret = "True"
                        THEN [alist EXCEPT !.rp = AbstractAdd(@, p, pos)]
                        ELSE alist

ListRemovePolicy ==
    \E p \in RPPolicies :
        \E out \in {remove_policy_in_role(Ctx, 100, p, TRUE)} :
            /\ Returns(out, Call("remove_policy_in_role", 0))
            /\ alist' = IF out.ret = "True"
                        THEN [alist EXCEPT !.rp = DeleteElem(@, p)]
                        ELSE alist

-----------------------------------------------------------------------------
(* check_database_integrity *)

\* rbac.db, its user_version and rbac.db.tmp
Files == [db |-> db, rbac |-> rbac, tmp |-> tmp]

\* a database file just created by connect and create_database
NewFile == [store |-> EmptyStore, user_version |-> 0]

\* DatabaseManager.set_database_version that leaves the pragma unset
set_database_version_skipped(file, version) == file

\* DatabaseManager.set_database_version: pragma user_version, which SQLite
\* writes outside any transaction
set_database_version(file, version) == [file EXCEPT !.user_version = version]

\* safe_move(_db_file_tmp, _db_file)
safe_move(files) ==
    [db |-> The(files.tmp).store,
     rbac |-> [exists |-> TRUE, user_version |-> The(files.tmp).user_version],
     tmp |-> {}]

\* an exception handler that puts what the temp database holds in place
on_exception_moves_tmp(files) ==
    IF files.tmp = {} THEN files ELSE safe_move(files)

\* the except clauses and the finally clause: the sessions are closed and the
\* temp database is removed
on_exception(files) == [files EXCEPT !.tmp = {}]

\* `os.path.exists(_db_file_tmp) and os.remove(_db_file_tmp)` that removes
\* nothing
remove_tmp_kept(files) == files

\* `os.path.exists(_db_file_tmp) and os.remove(_db_file_tmp)`, before the temp
\* database is created and in the finally clause
remove_tmp(files) == [files EXCEPT !.tmp = {}]

\* connect and create_database on rbac.db.tmp: a file that is there is opened
\* as it is, create_all adding only the tables it lacks
create_tmp(files) == [files EXCEPT !.tmp = IF @ = {} THEN {NewFile} ELSE @]

\* a step of check_database_integrity: the files it leaves, where it goes on,
\* the label of the step and the exception it raised ("None": none)
StepCall(files, next, call, raised) ==
    /\ db' = files.db
    /\ sess' = files.db
    /\ rbac' = files.rbac
    /\ tmp' = files.tmp
    /\ pc' = next
    /\ op' = call
    /\ ret' = raised
    /\ cache_calls' = 0
    /\ UNCHANGED <<tokenVars, alist>>

Step(files, next, name, raised) == StepCall(files, next, Call(name, 0), raised)

UpgradeSteps == {"create_tmp", "defaults", "migrate_protected", "migrate_user", "set_version"}

\* rbac.db exists and is at the expected version or above: nothing to do
CheckCurrent ==
    /\ pc = "idle"
    /\ rbac.exists /\ ~(rbac.user_version < expected_version)
    /\ \E files \in {remove_tmp(Files)} : Step(files, "done", "check", "None")

\* rbac.db exists at a lower version: the upgrade begins
CheckUpgrade ==
    /\ pc = "idle"
    /\ rbac.exists /\ rbac.user_version < expected_version
    /\ \E files \in {Files} : Step(files, "create_tmp", "check", "None")

\* rbac.db does not exist: it is created, seeded and given the version
CreateFresh ==
    /\ pc = "idle"
    /\ ~rbac.exists
    /\ \E file \in {set_database_version(
                        [NewFile EXCEPT !.store =
                             insert_default_resources(Fresh(@), default_yaml(expected_version)).db],
                        expected_version)} :
           Step(remove_tmp([db |-> file.store,
                            rbac |-> [exists |-> TRUE, user_version |-> file.user_version],
                            tmp |-> tmp]),
                "done", "create", "None")

\* os.remove of a temp file left behind, connect, create_database; the label
\* tells how many files were there to remove
CreateTmp ==
    /\ pc = "create_tmp"
    /\ \E files \in {create_tmp(remove_tmp(Files))} :
           StepCall(files, "defaults", Call("create_tmp", Cardinality(tmp)), "None")

InsertDefaults ==
    /\ pc = "defaults"
    /\ \E file \in {[The(tmp) EXCEPT !.store =
                         insert_default_resources(Fresh(@), default_yaml(expected_version)).db]} :
           Step([Files EXCEPT !.tmp = {file}], "migrate_protected", "insert_default_resources", "None")

\* a call of migrate_data and what check_database_integrity does with it
Migrate(from_id, to_id, resource_type, next) ==
    \E r \in migrate_data(db, Fresh(The(tmp).store), from_id, to_id, resource_type) :
        IF r.raised
        THEN \E files \in {on_exception([Files EXCEPT !.tmp = {[The(tmp) EXCEPT !.store = r.c.db]}])} :
                 Step(files, "failed", "migrate_data", "AttributeError")
        ELSE \E files \in {[Files EXCEPT !.tmp = {[The(tmp) EXCEPT !.store = r.c.db]}]} :
                 Step(files, next, "migrate_data", "None")

MigrateProtected ==
    /\ pc = "migrate_protected"
    /\ Migrate({cloud_reserved_range}, {max_id_reserved}, "protected", "migrate_user")

MigrateUser ==
    /\ pc = "migrate_user"
    /\ Migrate({max_id_reserved + 1}, {}, "user", "set_version")

SetDatabaseVersion ==
    /\ pc = "set_version"
    /\ \E file \in {set_database_version(The(tmp), expected_version)} :
           Step([Files EXCEPT !.tmp = {file}], "move", "set_database_version", "None")

SafeMove ==
    /\ pc = "move"
    /\ \E files \in {safe_move(Files)} :
           Step(files, "done", "safe_move", "None")

\* a step of the upgrade raises (the file system or SQLite fails)
StepFails ==
    /\ pc \in UpgradeSteps
    /\ \E files \in {on_exception(Files)} :
           Step(files, "failed", pc, "Exception")

\* the API starts again
Restart ==
    /\ pc \in {"done", "failed"}
    /\ \E files \in {Files} : Step(files, "idle", "start", "None")

-----------------------------------------------------------------------------
(* The databases an upgrade starts from: the default resources of the        *)
(* revision before, a cloud role, and what the managers have stored since    *)

InjSeqs(S) == UNION {Perms(T) : T \in SUBSET S}

ExtraKeyBody ==
    Dict([actions |-> List(<<"agent:delete">>),
          resources |-> List(<<"agent:id:*">>),
          effect |-> Str("allow"),
          extra |-> Str("x")])

PolicyKinds == {"none", "plain", "same_body", "same_name", "extra_key"}

\* policy 100 of the source, by kind: none; one that meets no default; one
\* with the body of the new default policy 2; one with its name; one whose
\* body was replaced through update_policy by a body with a fourth key
SourcePolicy(c, kind) ==
    CASE kind = "none" -> c
      [] kind = "plain" -> add_policy(c, 100, Body("agent:delete", "allow"), {}, 1, "user", TRUE).c
      [] kind = "same_body" -> add_policy(c, 100, Body("agent:read", "deny"), {}, 1, "user", TRUE).c
      [] kind = "same_name" -> add_policy(c, 2, Body("agent:delete", "allow"), {}, 1, "user", TRUE).c
      [] kind = "extra_key" ->
             Then(add_policy(c, 100, Body("agent:delete", "allow"), {}, 1, "user", TRUE).c,
                  LAMBDA c1 : update_policy(c1, 100, {}, ExtraKeyBody, {}, TRUE).c)

RECURSIVE link_roles(_, _, _)
link_roles(c, roles, i) ==
    IF i > Len(roles) THEN c
    ELSE Then(The(add_role_to_user(c, 100, roles[i], NoPos, FALSE, TRUE)).c,
              LAMBDA c1 : link_roles(c1, roles, i + 1))

RECURSIVE link_policies(_, _, _)
link_policies(c, policies, i) ==
    IF i > Len(policies) THEN c
    ELSE Then(The(add_policy_to_role(c, 100, policies[i], NoPos, FALSE, TRUE)).c,
              LAMBDA c1 : link_policies(c1, policies, i + 1))

\* the tables of SourceStore before its relationships
SourceEntities(user, role, kind) ==
    Then(add_role(Fresh(DefaultStore(expected_version - 1)), 95, {95}, 1, "protected", FALSE).c,
         LAMBDA c1 :
    Then(IF user THEN add_user(c1, 100, "pw", {}, FALSE, 1, "user", TRUE).c ELSE c1, LAMBDA c2 :
    Then(IF role /= {} THEN add_role(c2, The(role), {}, 1, "user", TRUE).c ELSE c2, LAMBDA c3 :
    Then(add_rule(c3, 100, Dict([FIND |-> Str("u")]), {}, 1, "user", TRUE).c, LAMBDA c4 :
    Then(SourcePolicy(c4, kind), LAMBDA c5 :
    add_policy(c5, 101, Body("agent:delete", "deny"), {}, 1, "user", TRUE).c)))))

\* user: user 100 exists; role: the optional name of role 100; roles and
\* policies: the roles given to user 100 and the policies given to role 100,
\* in the order of the calls; rule: rule 100 is given to role 100
SourceStore(user, role, kind, roles, policies, rule) ==
    Then(SourceEntities(user, role, kind), LAMBDA c6 :
    Then(link_roles(c6, roles, 1), LAMBDA c7 :
    Then(link_policies(c7, policies, 1), LAMBDA c8 :
    IF rule THEN add_rule_to_role(c8, 100, 100, TRUE, FALSE).c.db ELSE c8.db)))

SourceStores ==
    {SourceStore(user, role, kind, roles, policies, rule) :
        user \in BOOLEAN, role \in {{}, {100}, {2}}, kind \in PolicyKinds,
        roles \in InjSeqs({1, 100}), policies \in InjSeqs({1, 100, 101}), rule \in BOOLEAN}

InitMigrate ==
    /\ pc = "idle"
    /\ tmp = {}
    /\ \/ rbac = [exists |-> FALSE, user_version |-> 0] /\ db = EmptyStore
       \/ rbac = [exists |-> TRUE, user_version |-> expected_version]
          /\ db = DefaultStore(expected_version)
       \/ rbac = [exists |-> TRUE, user_version |-> expected_version - 1]
          /\ db \in SourceStores
    /\ sess = db
    /\ op = Call("init", 0)
    /\ ret = "None"
    /\ cache_calls = 0
    /\ users_tb = {}
    /\ roles_tb = {}
    /\ runas_tb = {}
    /\ now = 0
    /\ callers = [p \in Callers |-> [pc |-> "idle", ret |-> "None"]]
    /\ issued = [user |-> [u \in TokUsers |-> {}], role |-> [r \in TokRoles |-> {}], run_as |-> {}]
    /\ alist = [ur |-> <<>>, rp |-> <<>>]

-----------------------------------------------------------------------------
(* Calls of add and update of the entity managers, as the API makes them:    *)
(* check_default left at True, no id, no resource_type                       *)

CrudNames == {1, 100, 101}

\* the rule bodies the calls are made with
RuleArgs == {None, Dict([FIND |-> Str("u")]), List(<<>>)}

\* bodies add_policy accepts
GoodBodies == {Body("agent:read", "allow"), Body("agent:delete", "allow")}

\* bodies that are not an object with exactly the keys actions, resources and
\* effect, or whose actions or resources are not a non-empty list of
\* well-formed strings, or whose effect is not a string
BadBodies ==
    {None,
     List(<<>>),
     Dict([actions |-> List(<<"agent:read">>), resources |-> List(<<"agent:id:*">>)]),
     ExtraKeyBody,
     Dict([actions |-> List(<<"agent">>), resources |-> List(<<"agent:id:*">>),
           effect |-> Str("allow")]),
     Dict([actions |-> List(<<"agent:read">>), resources |-> List(<<"agent:id:*&bad">>),
           effect |-> Str("allow")]),
     Dict([actions |-> List(<<>>), resources |-> List(<<"agent:id:*">>),
           effect |-> Str("allow")]),
     Dict([actions |-> List(<<"agent:read">>), resources |-> List(<<"agent:id:*">>),
           effect |-> Num(1)])}

PolicyArgs == GoodBodies \cup BadBodies

\* an optional name
OptNames == {{}} \cup {{n} : n \in CrudNames}

\* `with AuthenticationManager() as auth:` and the like: a behaviour stays with
\* the manager whose method it called first (each manager reads and writes
\* the table of its own entity type only)
InManager(names) == op.name \in {"init", "__exit__"} \cup names
UserCalls == {"add_user", "update_user"}
RoleCalls == {"add_role", "update_role"}
RuleCalls == {"add_rule", "update_rule"}
PolicyCalls == {"add_policy", "update_policy"}

AddUser ==
    /\ InManager(UserCalls)
    /\ \E username \in {1, 100} :
           \E out \in {add_user(Ctx, username, "pw", {}, FALSE, 1, "user", TRUE)} :
               Apply(out, Call("add_user", 0))

UpdateUser ==
    /\ InManager(UserCalls)
    /\ \E user_id \in {1, 100}, password \in {{}, {"new"}} :
           \E out \in {update_user(Ctx, user_id, password, {})} :
               Apply(out, Call("update_user", user_id))

AddRole ==
    /\ InManager(RoleCalls)
    /\ \E name \in CrudNames :
           \E out \in {add_role(Ctx, name, {}, 1, "user", TRUE)} :
               Apply(out, Call("add_role", 0))

UpdateRole ==
    /\ InManager(RoleCalls)
    /\ \E role_id \in {1, 100, 101}, name \in OptNames :
           \E out \in {update_role(Ctx, role_id, name, {})} :
               Apply(out, Call("update_role", role_id))

AddRule ==
    /\ InManager(RuleCalls)
    /\ \E name \in {1, 100}, rule \in RuleArgs :
           \E out \in {add_rule(Ctx, name, rule, {}, 1, "user", TRUE)} :
               Apply(out, Call("add_rule", 0))

UpdateRule ==
    /\ InManager(RuleCalls)
    /\ \E rule_id \in {1, 100}, name \in {{}, {1}, {101}}, rule \in RuleArgs :
           \E out \in {update_rule(Ctx, rule_id, name, rule, {})} :
               Apply(out, Call("update_rule", rule_id))

AddPolicy ==
    /\ InManager(PolicyCalls)
    /\ \E name \in CrudNames, policy \in PolicyArgs :
           \E out \in {add_policy(Ctx, name, policy, {}, 1, "user", TRUE)} :
               Apply(out, Call("add_policy", 0))

UpdatePolicy ==
    /\ InManager(PolicyCalls)
    /\ \E policy_id \in {1, 100, 101}, name \in OptNames, policy \in PolicyArgs :
           \E out \in {update_policy(Ctx, policy_id, name, policy, {}, TRUE)} :
               Apply(out, Call("update_policy", policy_id))

\* the state after check_database_integrity on a fresh installation
InitCrud ==
    /\ db = DefaultStore(expected_version)
    /\ sess = db
    /\ op = Call("init", 0)
    /\ ret = "None"
    /\ cache_calls = 0
    /\ users_tb = {}
    /\ roles_tb = {}
    /\ runas_tb = {}
    /\ now = 0
    /\ callers = [p \in Callers |-> [pc |-> "idle", ret |-> "None"]]
    /\ issued = [user |-> [u \in TokUsers |-> {}], role |-> [r \in TokRoles |-> {}], run_as |-> {}]
    /\ alist = [ur |-> <<>>, rp |-> <<>>]
    /\ rbac = [exists |-> TRUE, user_version |-> expected_version]
    /\ tmp = {}
    /\ pc = "done"

-----------------------------------------------------------------------------
(* The relationship adds between the entities above max_id_reserved, as the  *)
(* API makes them: no position, force_admin left at False                    *)

AddRoleToUserAbove ==
    \E r \in {100, 101} :
        \E out \in add_role_to_user(Ctx, 100, r, NoPos, FALSE, TRUE) :
            Apply(out, Call("add_role_to_user", 0))

AddPolicyToRoleAbove ==
    \E r \in {100, 101} :
        \E out \in add_policy_to_role(Ctx, r, 100, NoPos, FALSE, TRUE) :
            Apply(out, Call("add_policy_to_role", 0))

AddRuleToRoleAbove ==
    \E r \in {100, 101} :
        \E out \in {add_rule_to_role(Ctx, 100, r, TRUE, FALSE)} :
            Apply(out, Call("add_rule_to_role", 0))

-----------------------------------------------------------------------------
(* TokenManager.delete_all_rules *)

\* every row of the user and role tables is deleted, and the first row of the
\* run_as table: the possible tables after it
token_delete_all_rules(t) ==
    {[users |-> {}, roles |-> {}, runas |-> t.runas \ runas_rule]
     : runas_rule \in First(t.runas)}

TokenDeleteAllRules ==
    \E t \in token_delete_all_rules(Tok) :
        /\ users_tb' = t.users
        /\ roles_tb' = t.roles
        /\ runas_tb' = t.runas
        /\ ret' = "List"
        /\ cache_calls' = 0
        /\ op' = Call("delete_all_rules", 0)
        /\ UNCHANGED <<storeVars, now, callers, issued, alist, fileVars>>

-----------------------------------------------------------------------------
(* Calls of the relationship adds with position given or left out: the       *)
(* default of each signature stands for a position that is left out          *)

Omitted == [given |-> FALSE]
Given(position) == [given |-> TRUE, position |-> position]
PositionArgs == {Omitted} \cup {Given(p) : p \in {NoPos} \cup ExplicitPos}

\* position: int = None
call_add_role_to_user(c, user_id, role_id, arg) ==
    add_role_to_user(c, user_id, role_id,
                     IF arg.given THEN arg.position ELSE NoPos, FALSE, TRUE)

\* position: int = -1
call_add_user_to_role(c, user_id, role_id, arg) ==
    add_user_to_role(c, user_id, role_id,
                     IF arg.given THEN arg.position ELSE {default_position}, TRUE)

\* position: int = None, force_admin: bool = False
call_add_policy_to_role(c, role_id, policy_id, arg, force_admin) ==
    add_policy_to_role(c, role_id, policy_id,
                       IF arg.given THEN arg.position ELSE NoPos, force_admin, TRUE)

\* position: int = None, force_admin: bool = False
call_add_role_to_policy(c, policy_id, role_id, arg, force_admin) ==
    add_role_to_policy(c, policy_id, role_id,
                       IF arg.given THEN arg.position ELSE NoPos, force_admin, TRUE)

-----------------------------------------------------------------------------
(* The ordered adds on one parent, user 100 and role 100, with every position *)

AddRoleToUserAt ==
    \E r \in {99, 100, 101}, pos \in {NoPos} \cup ExplicitPos :
        \E out \in add_role_to_user(Ctx, 100, r, pos, FALSE, TRUE) :
            Apply(out, Call("add_role_to_user", r))

AddPolicyToRoleAt ==
    \E p \in {99, 100, 101}, pos \in {NoPos} \cup ExplicitPos :
        \E out \in add_policy_to_role(Ctx, 100, p, pos, FALSE, TRUE) :
            Apply(out, Call("add_policy_to_role", p))


\* add_role and add_policy called with an id, as migrate_data and
\* insert_default_resources call them (check_default=False), and as the
\* managers' callers do (check_default=True)
IdArgs == {{}, {max_id_reserved}, {150}}

AddRoleWithId ==
    \E name \in CrudNames, role_id \in IdArgs, check_default \in BOOLEAN :
        \E out \in {add_role(Ctx, name, role_id, 1, "user", check_default)} :
            Apply(out, Call("add_role", 0))

AddPolicyWithId ==
    \E name \in CrudNames, policy \in GoodBodies, policy_id \in IdArgs, check_default \in BOOLEAN :
        \E out \in {add_policy(Ctx, name, policy, policy_id, 1, "user", check_default)} :
            Apply(out, Call("add_policy", 0))

------------------------------------------------------------------------------
(* Two calls of add_user_roles_rules(run_as=True) made at the same time, each *)
(* with a TokenManager and a session of its own on the one rbac.db.  Every    *)
(* commit of the method ends a step                                           *)

\* self.session.add(RunAsTokenBlacklist()); self.session.commit(): the primary
\* key nbf_invalid_until of a row in the table can be the one of the new row
insert_runas_rule(t, time) ==
    IF \E x \in t.runas : x.nbf_invalid_until = time
    THEN [t |-> t, ret |-> "ALREADY_EXIST"]
    ELSE [t |-> [t EXCEPT !.runas = @ \cup {RunAsTokenBlacklist(time)}], ret |-> "True"]

At(p, from, to, result) ==
    /\ callers[p].pc = from
    /\ callers' = [callers EXCEPT ![p] = [pc |-> to, ret |-> result]]

\* self.delete_all_expired_rules()
RunAsExpire ==
    \E p \in Callers : \E t \in delete_all_expired_rules(Tok, now) :
        /\ At(p, "idle", "expired", "None")
        /\ users_tb' = t.users
        /\ roles_tb' = t.roles
        /\ runas_tb' = t.runas
        /\ UNCHANGED <<storeVars, op, ret, cache_calls, now, issued, alist, fileVars>>

\* self.delete_rule(run_as=run_as)
RunAsDelete ==
    \E p \in Callers : \E t \in token_delete_rule(Tok, NoId, NoId, TRUE) :
        /\ At(p, "expired", "deleted", "None")
        /\ users_tb' = t.users
        /\ roles_tb' = t.roles
        /\ runas_tb' = t.runas
        /\ UNCHANGED <<storeVars, op, ret, cache_calls, now, issued, alist, fileVars>>

\* the add and its commit, clear_cache() and return True, or the rollback and
\* return SecurityError.ALREADY_EXIST
RunAsInsert ==
    \E p \in Callers : \E out \in {insert_runas_rule(Tok, now)} :
        /\ At(p, "deleted", "idle", out.ret)
        /\ users_tb' = out.t.users
        /\ roles_tb' = out.t.roles
        /\ runas_tb' = out.t.runas
        /\ ret' = out.ret
        /\ cache_calls' = IF out.ret = "True" THEN 1 ELSE 0
        /\ op' = Call("add_user_roles_rules", p)
        /\ issued' = [issued EXCEPT !.run_as = IF out.ret = "True" THEN {now} ELSE @]
        /\ UNCHANGED <<storeVars, alist, fileVars, now>>

------------------------------------------------------------------------------
(* add_user_roles_rules(users={user_id}) for a user that has a rule, step by  *)
(* step: delete_rule commits the removal of the old rule before the new rule  *)
(* is added and committed                                                     *)

\* the `users` argument of the calls
ReissueUsers == {100}

\* self.session.add(UsersTokenBlacklist(user_id=int(user_id))) and
\* self.session.commit(): user_id is the primary key
insert_user_rule(t, user_id, time) ==
    IF \E x \in t.users : x.user_id = user_id
    THEN [t |-> t, ret |-> "ALREADY_EXIST"]
    ELSE [t |-> [t EXCEPT !.users = @ \cup {UsersTokenBlacklist(user_id, time)}], ret |-> "True"]

\* self.delete_all_expired_rules()
UserExpire ==
    \E p \in Callers : \E t \in delete_all_expired_rules(Tok, now) :
        /\ At(p, "idle", "expired", "None")
        /\ users_tb' = t.users
        /\ roles_tb' = t.roles
        /\ runas_tb' = t.runas
        /\ UNCHANGED <<storeVars, op, ret, cache_calls, now, issued, alist, fileVars>>

\* self.delete_rule(user_id=int(user_id)), which commits
UserDelete ==
    \E p \in Callers, user_id \in ReissueUsers :
        \E t \in token_delete_rule(Tok, {user_id}, NoId, FALSE) :
            /\ At(p, "expired", "deleted", "None")
            /\ users_tb' = t.users
            /\ roles_tb' = t.roles
            /\ runas_tb' = t.runas
            /\ UNCHANGED <<storeVars, op, ret, cache_calls, now, issued, alist, fileVars>>

\* the add and its commit, clear_cache() and return True, or the rollback and
\* return SecurityError.ALREADY_EXIST
UserInsert ==
    \E p \in Callers, user_id \in ReissueUsers : \E out \in {insert_user_rule(Tok, user_id, now)} :
        /\ At(p, "deleted", "idle", out.ret)
        /\ users_tb' = out.t.users
        /\ roles_tb' = out.t.roles
        /\ runas_tb' = out.t.runas
        /\ ret' = out.ret
        /\ cache_calls' = IF out.ret = "True" THEN 1 ELSE 0
        /\ op' = Call("add_user_roles_rules", p)
        /\ issued' = [issued EXCEPT !.user[user_id] = IF out.ret = "True" THEN {now} ELSE @]
        /\ UNCHANGED <<storeVars, alist, fileVars, now>>

------------------------------------------------------------------------------
(* What TokenManager.delete_all_rules returns *)

\* the ids of a sequence of rows
Ids(rows, col) == [i \in DOMAIN rows |-> rows[i][col]]

\* `return list_users, list_roles`: list_users is never appended to; the user
\* loop and the role loop both append to list_roles, in the order of .all()
delete_all_rules_lists(t) ==
    {[list_users |-> <<>>, list_roles |-> Ids(users, "user_id") \o Ids(roles, "role_id")]
     : users \in Perms(t.users), roles \in Perms(t.roles)}

------------------------------------------------------------------------------
(* check_database_integrity cut short *)

\* the process is killed during the upgrade: no except or finally clause
\* runs, the files stay as they are, and the API is started again later
Kill ==
    /\ pc \in UpgradeSteps \cup {"move"}
    /\ \E files \in {Files} : Step(files, "idle", "kill", "None")

\* get_api_revision raises ValueError on an rbac.db that exists, or safe_move
\* raises: the except clause and the finally clause run
EdgeFails ==
    /\ (pc = "idle" /\ rbac.exists) \/ pc = "move"
    /\ \E files \in {on_exception(Files)} :
           Step(files, "failed", IF pc = "idle" THEN "check" ELSE "safe_move", "Exception")

------------------------------------------------------------------------------
(* Source databases with users and roles on both sides of the two id ranges   *)
(* of migrate_data                                                            *)

RECURSIVE add_roles_with_ids(_, _)
add_roles_with_ids(c, ids) ==
    IF ids = {} THEN c
    ELSE Then(add_role(c, Max(ids), {Max(ids)}, 1, "user", FALSE).c,
              LAMBDA c1 : add_roles_with_ids(c1, ids \ {Max(ids)}))

RECURSIVE add_users_with_ids(_, _)
add_users_with_ids(c, ids) ==
    IF ids = {} THEN c
    ELSE Then(add_user(c, Max(ids), "pw", {Max(ids)}, FALSE, 1, "user", FALSE).c,
              LAMBDA c1 : add_users_with_ids(c1, ids \ {Max(ids)}))

RangeStores ==
    {add_users_with_ids(add_roles_with_ids(Fresh(DefaultStore(expected_version - 1)), roles), users).db
     : roles \in SUBSET {cloud_reserved_range, cloud_reserved_range + 1, max_id_reserved, max_id_reserved + 1},
       users \in SUBSET {cloud_reserved_range, max_id_reserved + 1}}

InitRange ==
    /\ pc = "idle"
    /\ tmp = {}
    /\ rbac = [exists |-> TRUE, user_version |-> expected_version - 1]
    /\ db \in RangeStores
    /\ sess = db
    /\ op = Call("init", 0)
    /\ ret = "None"
    /\ cache_calls = 0
    /\ users_tb = {}
    /\ roles_tb = {}
    /\ runas_tb = {}
    /\ now = 0
    /\ callers = [p \in Callers |-> [pc |-> "idle", ret |-> "None"]]
    /\ issued = [user |-> [u \in TokUsers |-> {}], role |-> [r \in TokRoles |-> {}], run_as |-> {}]
    /\ alist = [ur |-> <<>>, rp |-> <<>>]

------------------------------------------------------------------------------
(* Source databases whose relationship rows have reserved endpoints: role 3   *)
(* has the name of the new default role 2, role 50 and rule 50 have names no  *)
(* entity of the new database has                                             *)

RECURSIVE link_rules(_, _)
link_rules(c, rules) ==
    IF rules = {} THEN c
    ELSE Then(add_rule_to_role(c, Max(rules), 100, TRUE, TRUE).c,
              LAMBDA c1 : link_rules(c1, rules \ {Max(rules)}))

LinkEntities ==
    Then(add_role(Fresh(DefaultStore(expected_version - 1)), 2, {3}, 1, "default", FALSE).c,
         LAMBDA c1 :
    Then(add_role(c1, 50, {50}, 1, "default", FALSE).c, LAMBDA c2 :
    Then(add_rule(c2, 50, Dict([FIND |-> Str("gone")]), {50}, 1, "default", FALSE).c, LAMBDA c3 :
    Then(add_user(c3, 100, "pw", {}, FALSE, 1, "user", TRUE).c, LAMBDA c4 :
    add_role(c4, 100, {}, 1, "user", TRUE).c))))

LinkStores ==
    {link_rules(link_roles(LinkEntities, roles, 1), rules).db
     : roles \in InjSeqs({1, 3, 50, 100}), rules \in SUBSET {1, 50}}

InitLinks ==
    /\ pc = "idle"
    /\ tmp = {}
    /\ rbac = [exists |-> TRUE, user_version |-> expected_version - 1]
    /\ db \in LinkStores
    /\ sess = db
    /\ op = Call("init", 0)
    /\ ret = "None"
    /\ cache_calls = 0
    /\ users_tb = {}
    /\ roles_tb = {}
    /\ runas_tb = {}
    /\ now = 0
    /\ callers = [p \in Callers |-> [pc |-> "idle", ret |-> "None"]]
    /\ issued = [user |-> [u \in TokUsers |-> {}], role |-> [r \in TokRoles |-> {}], run_as |-> {}]
    /\ alist = [ur |-> <<>>, rp |-> <<>>]

------------------------------------------------------------------------------
(* Source databases whose entities were created at time 1 by a process that   *)
(* imported the module before the running one                                 *)

CreatedEntities(user, role, rule, policy) ==
    Then(Fresh(DefaultStore(expected_version - 1)), LAMBDA c0 :
    Then(IF user THEN add_user(c0, 100, "pw", {}, FALSE, 1, "user", TRUE).c ELSE c0, LAMBDA c1 :
    Then(IF role /= {} THEN add_role(c1, The(role), role, 1, "user", FALSE).c ELSE c1, LAMBDA c2 :
    Then(IF rule
         THEN add_rule_in(c2, 100, Dict([FIND |-> Str("u")]), {}, 1, "user", TRUE, imported_at - 1).c
         ELSE c2, LAMBDA c3 :
    IF policy THEN add_policy(c3, 100, Body("agent:delete", "allow"), {}, 1, "user", TRUE).c.db
    ELSE c3.db))))

CreatedStores ==
    {CreatedEntities(user, role, rule, policy)
     : user \in BOOLEAN, role \in {{}, {95}, {100}}, rule \in BOOLEAN, policy \in BOOLEAN}

InitCreated ==
    /\ pc = "idle"
    /\ tmp = {}
    /\ rbac = [exists |-> TRUE, user_version |-> expected_version - 1]
    /\ db \in CreatedStores
    /\ sess = db
    /\ op = Call("init", 0)
    /\ ret = "None"
    /\ cache_calls = 0
    /\ users_tb = {}
    /\ roles_tb = {}
    /\ runas_tb = {}
    /\ now = 0
    /\ callers = [p \in Callers |-> [pc |-> "idle", ret |-> "None"]]
    /\ issued = [user |-> [u \in TokUsers |-> {}], role |-> [r \in TokRoles |-> {}], run_as |-> {}]
    /\ alist = [ur |-> <<>>, rp |-> <<>>]
-----------------------------------------------------------------------------
(* Specifications *)

NextUR ==
    \/ AddRoleToUser
    \/ AddUserToRole
    \/ RemoveRoleInUser
    \/ RemoveUserInRole
    \/ RemoveAllRolesInUser
    \/ RemoveAllUsersInRole
    \/ ReplaceUserRole
    \/ DeleteUser
    \/ DeleteRole
    \/ Exit

SpecUR == Init /\ [][NextUR]_vars

NextRP ==
    \/ AddPolicyToRole
    \/ AddRoleToPolicy
    \/ RemovePolicyInRole
    \/ RemoveRoleInPolicy
    \/ RemoveAllPoliciesInRole
    \/ RemoveAllRolesInPolicy
    \/ ReplaceRolePolicy
    \/ DeleteRole
    \/ DeletePolicy
    \/ DeleteAllPolicies
    \/ Exit

SpecRP == Init /\ [][NextRP]_vars

NextRR ==
    \/ AddRuleToRole
    \/ RemoveRuleInRole
    \/ RemoveRoleInRule
    \/ RemoveAllRolesInRule
    \/ RemoveAllRulesInRole
    \/ ReplaceRuleRole
    \/ DeleteRule
    \/ DeleteRuleByName
    \/ DeleteAllRules
    \/ DeleteRole
    \/ DeleteRoleByName
    \/ DeleteAllRoles
    \/ Exit

SpecRR == Init /\ [][NextRR]_vars

NextEntity ==
    \/ DeleteUser
    \/ DeleteRole
    \/ DeleteRoleByName
    \/ DeleteAllRoles
    \/ DeleteRule
    \/ DeleteRuleByName
    \/ DeleteAllRules
    \/ DeletePolicy
    \/ DeletePolicyByName
    \/ DeleteAllPolicies

SpecEntity == Init /\ [][NextEntity]_vars

NextTok ==
    \/ Tick
    \/ AddUserRolesRules
    \/ DeleteAllExpiredRules
    \/ IsTokenValid

SpecTok == Init /\ [][NextTok]_vars

NextList ==
    \/ ListAddRole
    \/ ListRemoveRole
    \/ ListAddPolicy
    \/ ListRemovePolicy

SpecList == Init /\ [][NextList]_vars

\* token add_rules with entity deletes and role-rule add, remove, remove_all
\* and replace calls
NextCache ==
    \/ AddUserRolesRules
    \/ DeleteUser
    \/ DeleteRule
    \/ AddRuleToRole
    \/ RemoveRuleInRole
    \/ RemoveAllRolesInRule
    \/ ReplaceRuleRole
    \/ Exit

SpecCache == Init /\ [][NextCache]_vars

\* check_database_integrity, step by step, from every database it can find
NextMigrate ==
    \/ CheckCurrent
    \/ CheckUpgrade
    \/ CreateFresh
    \/ CreateTmp
    \/ InsertDefaults
    \/ MigrateProtected
    \/ MigrateUser
    \/ SetDatabaseVersion
    \/ SafeMove
    \/ StepFails
    \/ Restart

SpecMigrate == InitMigrate /\ [][NextMigrate]_vars

\* add and update of the four entity types, each through its manager
NextCrud ==
    \/ AddUser
    \/ UpdateUser
    \/ AddRole
    \/ UpdateRole
    \/ AddRule
    \/ UpdateRule
    \/ AddPolicy
    \/ UpdatePolicy
    \/ Exit

SpecCrud == InitCrud /\ [][NextCrud]_vars

\* entity deletes among the calls that add relationship rows
NextRef ==
    \/ AddRoleToUserAbove
    \/ AddPolicyToRoleAbove
    \/ AddRuleToRoleAbove
    \/ DeleteUser
    \/ DeleteRole
    \/ DeleteRoleByName
    \/ DeleteAllRoles
    \/ DeleteRule
    \/ DeleteRuleByName
    \/ DeleteAllRules
    \/ DeletePolicy
    \/ DeletePolicyByName
    \/ DeleteAllPolicies

SpecRef == Init /\ [][NextRef]_vars

\* the calls that write the token tables, one after another, as time passes
NextLedger ==
    \/ Tick
    \/ AddUserRolesRules
    \/ DeleteAllExpiredRules
    \/ TokenDeleteAllRules

SpecLedger == Init /\ [][NextLedger]_vars

\* the ordered adds with and without position
NextPos ==
    \/ AddRoleToUserAt
    \/ AddPolicyToRoleAt

SpecPos == Init /\ [][NextPos]_vars

NextIds ==
    \/ AddRoleWithId
    \/ AddPolicyWithId

SpecIds == InitCrud /\ [][NextIds]_vars

NextRunAs ==
    \/ Tick
    \/ RunAsExpire
    \/ RunAsDelete
    \/ RunAsInsert

SpecRunAs == Init /\ [][NextRunAs]_vars

NextExpire ==
    \/ Tick
    \/ RunAsExpire
    \/ RunAsDelete
    \/ RunAsInsert
    \/ DeleteAllExpiredRules

SpecExpire == Init /\ [][NextExpire]_vars

NextKill ==
    \/ CheckCurrent
    \/ CheckUpgrade
    \/ CreateFresh
    \/ CreateTmp
    \/ InsertDefaults
    \/ MigrateProtected
    \/ MigrateUser
    \/ SetDatabaseVersion
    \/ SafeMove
    \/ StepFails
    \/ EdgeFails
    \/ Kill
    \/ Restart

SpecKill == InitMigrate /\ [][NextKill]_vars

NextRange ==
    \/ CheckCurrent
    \/ CheckUpgrade
    \/ CreateTmp
    \/ InsertDefaults
    \/ MigrateProtected
    \/ MigrateUser
    \/ SetDatabaseVersion
    \/ SafeMove
    \/ StepFails
    \/ Restart

SpecRange == InitRange /\ [][NextRange]_vars

SpecLinks == InitLinks /\ [][NextRange]_vars

SpecCreated == InitCreated /\ [][NextRange]_vars

NextReissue ==
    \/ Tick
    \/ UserExpire
    \/ UserDelete
    \/ UserInsert
    \/ IsTokenValid

SpecReissue == Init /\ [][NextReissue]_vars

-----------------------------------------------------------------------------
(* Claims *)

Levels(rows) == {x.level : x \in rows}

\* C1: in every reachable state, for every user U, the levels of U's user-role
\* rows are exactly {0, ..., k-1}, k being the number of roles linked to U
C1_UserLevelsContiguous ==
    \A u \in UserIds :
        Levels(UserRows(db, u)) = 0..(Cardinality(UserRows(db, u)) - 1)

\* C2: in every reachable state, for every role R, the levels of R's role-policy
\* rows are exactly {0, ..., k-1}, k being the number of policies linked to R
C2_RoleLevelsContiguous ==
    \A r \in RoleIds :
        Levels(RoleRows(db, r)) = 0..(Cardinality(RoleRows(db, r)) - 1)

\* C3: in every state reached through normal-API calls of the rule, role and
\* role-rule managers, role 1 is still linked to rule 1 and to rule 2, in the
\* file and in the session
C3_RequiredRulesKept ==
    \A x \in required_rules :
        /\ RoleRuleLinked(db, required_role, x)
        /\ RoleRuleLinked(sess, required_role, x)

\* C3 case: remove_rule_in_role was called on role 1 and a required rule and
\* refused, while role 1 also holds a rule that is not required
C3_RemovalRefused ==
    /\ op.name = "remove_rule_in_role"
    /\ op.a[2] = required_role
    /\ op.a[1] \in required_rules
    /\ ret = "ADMIN_RESOURCES"
    /\ \E x \in RuleIds \ required_rules : RoleRuleLinked(db, required_role, x)

Reserved(table) == {e \in table : e.id <= max_id_reserved}

DeleteById == {"delete_user", "delete_role", "delete_rule", "delete_policy"}

\* C4: a delete by id of an entity with id <= 99 returns ADMIN_RESOURCES, and
\* after any sequence of delete-by-id, delete-by-name and delete_all calls every
\* user, role, rule and policy with id <= 99 is still present
C4_ReservedKept ==
    /\ (op.name \in DeleteById /\ op.a <= max_id_reserved) => ret = "ADMIN_RESOURCES"
    /\ Reserved(db.users) = Reserved(InitStore.users)
    /\ Reserved(db.roles) = Reserved(InitStore.roles)
    /\ Reserved(db.rules) = Reserved(InitStore.rules)
    /\ Reserved(db.policies) = Reserved(InitStore.policies)

\* C4 case: delete_role was called on role 99, the last reserved id, after the
\* roles above the reserved range were all deleted
C4_ReservedDeleteRefused ==
    /\ op.name = "delete_role"
    /\ op.a = max_id_reserved
    /\ ret = "ADMIN_RESOURCES"
    /\ Deletable(db.roles) = {}

OptUsers == {NoId} \cup {{u} : u \in TokUsers}
OptRoles == {NoId} \cup {{r} : r \in TokRoles}

\* every possible answer of is_token_valid is False
Invalid(token_nbf_time, user_id, role_id, run_as) ==
    is_token_valid(Tok, token_nbf_time, user_id, role_id, run_as) = {FALSE}

\* C5: while the clock is at most T + auth_token_exp_timeout, T being the time
\* at which add_rules last recorded a rule for a subject, is_token_valid is
\* False for that subject and every token_nbf <= T, whatever the other arguments
C5_RuleOutlivesTokens ==
    /\ \A u \in TokUsers : \A T \in issued.user[u] :
           now <= T + auth_token_exp_timeout =>
               \A nbf \in 0..T, r \in OptRoles, ra \in BOOLEAN : Invalid(nbf, {u}, r, ra)
    /\ \A r \in TokRoles : \A T \in issued.role[r] :
           now <= T + auth_token_exp_timeout =>
               \A nbf \in 0..T, u \in OptUsers, ra \in BOOLEAN : Invalid(nbf, u, {r}, ra)
    /\ \A T \in issued.run_as :
           now <= T + auth_token_exp_timeout =>
               \A nbf \in 0..T, u \in OptUsers, r \in OptRoles : Invalid(nbf, u, r, TRUE)

\* C5 case: delete_all_expired_rules ran at T + auth_token_exp_timeout, the last
\* second of a rule recorded at T for a user, and the rule is still in the table
C5_RuleKeptAtDeadline ==
    /\ op.name = "delete_all_expired_rules"
    /\ \E u \in TokUsers : \E T \in issued.user[u] :
           /\ now = T + auth_token_exp_timeout
           /\ UsersTokenBlacklist(u, T) \in users_tb

\* the nbf_invalid_until of the rules that apply to a token
ApplicableRules(user_id, role_id, run_as) ==
    {x.nbf_invalid_until : x \in {y \in users_tb : {y.user_id} = user_id}}
    \cup {x.nbf_invalid_until : x \in {y \in roles_tb : {y.role_id} = role_id}}
    \cup (IF run_as THEN {x.nbf_invalid_until : x \in runas_tb} ELSE {})

\* C6: is_token_valid(token_nbf, user_id, role_id, run_as) returns True iff no
\* rule of user_id, of role_id or (when run_as) of run-as has
\* nbf_invalid_until >= token_nbf; the rules of other subjects are not read
C6_ValidIffNoApplicableRule ==
    op.name = "is_token_valid" =>
        (ret = "True" <=> \A n \in ApplicableRules(op.a[2], op.a[3], op.a[4]) : ~(n >= op.a[1]))

\* C6 case: with a rule for user 100 and none for user 200, a token of user 200
\* issued before that rule was found valid
C6_OtherSubjectValid ==
    /\ op.name = "is_token_valid"
    /\ op.a[2] = {200}
    /\ op.a[3] = NoId
    /\ ret = "True"
    /\ \E x \in users_tb : x.user_id = 100 /\ x.nbf_invalid_until > op.a[1]
    /\ \A x \in users_tb : x.user_id /= 200

\* C7: after any sequence of add and remove calls on one parent, the list
\* operation returns exactly the abstract list built by replaying the calls as
\* insert-at-index, append and delete-element
C7_ListMatchesReplay ==
    /\ get_all_roles_from_user(db, 100) = {alist.ur}
    /\ get_all_policies_from_role(db, 100) = {alist.rp}

ReplaceCalls == {"replace_user_role", "replace_role_policy", "replace_rule_role"}

\* C8: a replace that returns RELATIONSHIP_ERROR leaves the file as it was and
\* leaves none of its work pending in the session, where a later commit would
\* persist it: the session is as before the call, or rolled back
C8_FailedReplaceRolledBack ==
    [][(op'.name \in ReplaceCalls /\ ret' = "RELATIONSHIP_ERROR")
        => (db' = db /\ sess' \in {sess, db})]_vars

\* the links of the parent a remove_all_* call was made on
LinksOf(s, call) ==
    IF call.name = "remove_all_roles_in_user" THEN {x \in s.ur : x.user_id = call.a}
    ELSE IF call.name = "remove_all_users_in_role" THEN {x \in s.ur : x.role_id = call.a}
    ELSE IF call.name = "remove_all_policies_in_role" THEN {x \in s.rp : x.role_id = call.a}
    ELSE {x \in s.rp : x.policy_id = call.a}

RemoveAllCalls == {"remove_all_roles_in_user", "remove_all_users_in_role",
                   "remove_all_policies_in_role", "remove_all_roles_in_policy"}

\* C9: a remove_all_* call either removes every link of the parent and commits,
\* or persists none of its removals and leaves none of them pending
C9_RemoveAllAllOrNothing ==
    [][op'.name \in RemoveAllCalls
        => \/ (LinksOf(db', op') = {} /\ sess' = db')
           \/ (db' = db /\ sess' \in {sess, db})]_vars

MutatingCalls ==
    {"add_user_roles_rules", "delete_user", "delete_rule", "add_rule_to_role",
     "remove_rule_in_role", "remove_all_roles_in_rule", "replace_rule_role"}

\* C10: every mutating manager call that returns success is accompanied by
\* exactly one call of clear_cache
C10_SuccessClearsCacheOnce ==
    (op.name \in MutatingCalls /\ ret = "True") => cache_calls = 1

\* C11: when a step of the upgrade fails (the temp database cannot be created
\* or seeded, a migrate_data pass or set_database_version raises), rbac.db keeps
\* the contents and the user_version it had; rbac.db is replaced only by
\* safe_move, by a temp database that went through every step, the last of
\* which gave it the expected version
C11_FailedUpgradeKeepsDatabase ==
    [][/\ (pc \in UpgradeSteps /\ pc' = "failed") => (db' = db /\ rbac' = rbac)
       /\ ((pc \in UpgradeSteps \cup {"move"}) /\ (db' /= db \/ rbac' /= rbac))
              => /\ pc = "move"
                 /\ tmp /= {}
                 /\ The(tmp).user_version = expected_version
                 /\ db' = The(tmp).store
                 /\ rbac' = [exists |-> TRUE, user_version |-> expected_version]]_vars

\* C11 witness: set_database_version failed on a temp database that was seeded
\* and filled by both passes; the old rbac.db, with its user 100, is in place
C11_FailedAfterMigration ==
    /\ pc = "failed"
    /\ op.name = "set_version"
    /\ tmp = {}
    /\ rbac.user_version < expected_version
    /\ HasId(db.users, 100)

\* C12: a run that ends well leaves rbac.db at the expected version, and a run
\* that finds rbac.db at the expected version or above changes neither its
\* contents nor its version
C12_IntegrityCheckIdempotent ==
    [][/\ pc' = "done" => (rbac'.exists /\ rbac'.user_version = expected_version)
       /\ (pc = "idle" /\ rbac.exists /\ rbac.user_version >= expected_version)
              => (pc' = "done" /\ db' = db /\ rbac' = rbac /\ tmp' = tmp)]_vars

\* C12 witness: the run after a successful upgrade (user 100 came with it)
\* found nothing to do
C12_SecondRunAfterUpgrade ==
    /\ pc = "done"
    /\ op.name = "check"
    /\ rbac.user_version = expected_version
    /\ HasId(db.users, 100)

\* the default resources of the new database
NewDefaults == DefaultStore(expected_version)

NameCollides(table, e) == \E d \in NewDefaults[table] : d.name = e.name

\* C13: after a successful upgrade every user, role, rule and policy of the
\* source with id > max_id_reserved whose name (and, for a policy, body) is not
\* that of a new default is in the new database with its id and its
\* identifying attributes
C13_UserEntitiesMigrated ==
    [][(pc = "move" /\ pc' = "done") =>
        /\ \A e \in {x \in db.users : x.id > max_id_reserved /\ ~NameCollides("users", x)} :
               \E n \in db'.users :
                   /\ n.id = e.id /\ n.name = e.name
                   /\ n.password = e.password /\ n.allow_run_as = e.allow_run_as
        /\ \A e \in {x \in db.roles : x.id > max_id_reserved /\ ~NameCollides("roles", x)} :
               \E n \in db'.roles : n.id = e.id /\ n.name = e.name
        /\ \A e \in {x \in db.rules : x.id > max_id_reserved /\ ~NameCollides("rules", x)} :
               \E n \in db'.rules : n.id = e.id /\ n.name = e.name
        /\ \A e \in {x \in db.policies :
                        /\ x.id > max_id_reserved
                        /\ ~NameCollides("policies", x)
                        /\ ~(\E d \in NewDefaults.policies : d.policy = x.policy)} :
               \E n \in db'.policies :
                   n.id = e.id /\ n.name = e.name /\ n.policy = e.policy]_vars

\* C14: after a successful upgrade every user-role and role-policy row of the
\* source with an endpoint above max_id_reserved, both endpoints of which are
\* in the new database, is in the new database at the level it had
C14_RelationshipLevelsKept ==
    [][(pc = "move" /\ pc' = "done") =>
        /\ \A x \in db.ur :
               (/\ x.user_id > max_id_reserved \/ x.role_id > max_id_reserved
                /\ HasId(db'.users, x.user_id)
                /\ HasId(db'.roles, x.role_id))
               => x \in db'.ur
        /\ \A x \in db.rp :
               (/\ x.role_id > max_id_reserved \/ x.policy_id > max_id_reserved
                /\ HasId(db'.roles, x.role_id)
                /\ HasId(db'.policies, x.policy_id))
               => x \in db'.rp]_vars

\* the policies of s above max_id_reserved that have the body of a new default
BodyCollisions(s) ==
    {x \in s.policies : x.id > max_id_reserved
                        /\ \E d \in NewDefaults.policies : d.policy = x.policy}

\* C15: when a source policy above max_id_reserved has the body of a default
\* policy of the new database, the second migrate_data pass completes, leaves
\* the source policy out and gives every role that held it the default policy
\* at the same level
C15_CollidingPolicyRelinked ==
    [][(pc = "migrate_user" /\ BodyCollisions(db) /= {} /\ op'.name = "migrate_data") =>
        /\ pc' = "set_version"
        /\ \A p \in BodyCollisions(db) :
               /\ ~HasId(The(tmp').store.policies, p.id)
               /\ \A x \in {y \in db.rp : y.policy_id = p.id} :
                      \E d \in NewDefaults.policies :
                          /\ d.policy = p.policy
                          /\ [x EXCEPT !.policy_id = d.id] \in The(tmp').store.rp]_vars


-----------------------------------------------------------------------------
\* the arguments an update is called with
ReservedIds == 1..max_id_reserved

\* the session of a manager that has just been entered
Entered == [sess |-> db, db |-> db]
OptTypes == {{}, {"user"}}

\* update of a reserved role, rule or policy with check_default left at True
\* returns ADMIN_RESOURCES and changes nothing
ReservedRefused ==
    \A id \in {e.id : e \in sess.roles \cup sess.rules \cup sess.policies} \cap ReservedIds :
        /\ \A name \in OptNames, type \in OptTypes :
               update_role(Ctx, id, name, type) = Out(Ctx, "ADMIN_RESOURCES")
        /\ \A name \in OptNames, rule \in RuleArgs, type \in OptTypes :
               update_rule(Ctx, id, name, rule, type) = Out(Ctx, "ADMIN_RESOURCES")
        /\ \A name \in OptNames, policy \in PolicyArgs, type \in OptTypes :
               update_policy(Ctx, id, name, policy, type, TRUE) = Out(Ctx, "ADMIN_RESOURCES")

-----------------------------------------------------------------------------
\* no two rows of a table share a name, no two policies a body
NamesUnique(table) == \A a, b \in table : a /= b => a.name /= b.name
StoreUnique(s) ==
    /\ NamesUnique(s.users)
    /\ NamesUnique(s.roles)
    /\ NamesUnique(s.rules)
    /\ NamesUnique(s.policies)
    /\ \A a, b \in s.policies : a /= b => a.policy /= b.policy

\* a name or a body that a row other than row i of the table has
NameTaken(table, i, name) == \E e \in table : e.id /= i /\ e.name = name
BodyTaken(i, policy) == \E e \in sess.policies : e.id /= i /\ e.policy = dumps(policy)
AboveReserved(table) == {e.id : e \in table} \ ReservedIds

\* the outcome of a refused call: the error, and the committed store as it was
Refused(out, err) == out.ret = err /\ out.c.db = db

\* add and update of roles, rules and policies with a name or body that is taken
CollisionsRefused ==
    /\ \A name \in CrudNames :
           NameTaken(sess.roles, 0, name) =>
               Refused(add_role(Ctx, name, {}, 1, "user", TRUE), "ALREADY_EXIST")
    /\ \A name \in CrudNames, rule \in {None, Dict([FIND |-> Str("u")])} :
           NameTaken(sess.rules, 0, name) =>
               Refused(add_rule(Ctx, name, rule, {}, 1, "user", TRUE), "ALREADY_EXIST")
    /\ \A name \in CrudNames, policy \in GoodBodies :
           NameTaken(sess.policies, 0, name) \/ BodyTaken(0, policy) =>
               Refused(add_policy(Ctx, name, policy, {}, 1, "user", TRUE), "ALREADY_EXIST")
    /\ \A id \in AboveReserved(sess.roles), name \in CrudNames :
           NameTaken(sess.roles, id, name) =>
               Refused(update_role(Ctx, id, {name}, {}), "ALREADY_EXIST")
    /\ \A id \in AboveReserved(sess.rules), name \in CrudNames :
           NameTaken(sess.rules, id, name) =>
               Refused(update_rule(Ctx, id, {name}, Dict([FIND |-> Str("u")]), {}),
                       "ALREADY_EXIST")
    /\ \A id \in AboveReserved(sess.policies), name \in OptNames, policy \in GoodBodies :
           (\E n \in name : NameTaken(sess.policies, id, n)) \/ BodyTaken(id, policy) =>
               Refused(update_policy(Ctx, id, name, policy, {}, TRUE), "ALREADY_EXIST")

\* add_user with a username that is taken ends with the given error
UserCollisionRefused(err) ==
    \A username \in CrudNames :
        NameTaken(sess.users, 0, username) =>
            Refused(add_user(Ctx, username, "pw", {}, FALSE, 1, "user", TRUE), err)

-----------------------------------------------------------------------------
\* C20: add_policy and update_policy return INVALID, and store nothing,
\* whenever the given body is not an object with exactly the three keys
\* actions, resources and effect, or its actions or resources is not a
\* non-empty list of well-formed strings, or its effect is not a string.
C20_BadBodyInvalid ==
    \A policy \in BadBodies :
        /\ \A name \in CrudNames :
               Refused(add_policy(Ctx, name, policy, {}, 1, "user", TRUE), "INVALID")
        /\ \A id \in AboveReserved(sess.policies), name \in OptNames :
               Refused(update_policy(Ctx, id, name, policy, {}, TRUE), "INVALID")

-----------------------------------------------------------------------------
\* every relationship row of a store refers to rows that exist
Referenced(s) ==
    /\ \A x \in s.ur : HasId(s.users, x.user_id) /\ HasId(s.roles, x.role_id)
    /\ \A x \in s.rp : HasId(s.roles, x.role_id) /\ HasId(s.policies, x.policy_id)
    /\ \A x \in s.rr : HasId(s.roles, x.role_id) /\ HasId(s.rules, x.rule_id)

-----------------------------------------------------------------------------
\* the rows of a subject are no other than the row of the latest add_rules
\* call for it
LatestOnly(rows, issued_at, row(_)) ==
    /\ Cardinality(rows) <= 1
    /\ \A time \in issued_at : rows \subseteq {row(time)}
    /\ issued_at = {} => rows = {}

\* C19: in every state reachable through any sequence of add_rules,
\* delete_expired and delete_all calls issued one after another, the user
\* ledger holds at most one rule per user id, the role ledger at most one rule
\* per role id, and the run-as ledger at most one row; add_rules for a subject
\* that already has a rule replaces that rule.
C19_OneRulePerSubject ==
    /\ \A u \in TokUsers :
           LatestOnly({x \in users_tb : x.user_id = u}, issued.user[u],
                      LAMBDA time : UsersTokenBlacklist(u, time))
    /\ \A r \in TokRoles :
           LatestOnly({x \in roles_tb : x.role_id = r}, issued.role[r],
                      LAMBDA time : RolesTokenBlacklist(r, time))
    /\ LatestOnly(runas_tb, issued.run_as, RunAsTokenBlacklist)
    /\ \A x \in users_tb : x.user_id \in TokUsers
    /\ \A x \in roles_tb : x.role_id \in TokRoles

\* C19 witness: add_rules at time 1 has left the rule of time 1 for a user, a
\* role and run_as while a rule of time 0 is still in the user ledger
C19_RuleReplaced ==
    /\ op.name = "add_user_roles_rules"
    /\ ret = "True"
    /\ \E u \in TokUsers : UsersTokenBlacklist(u, 1) \in users_tb
    /\ \E u \in TokUsers : UsersTokenBlacklist(u, 0) \in users_tb
    /\ \E r \in TokRoles : RolesTokenBlacklist(r, 1) \in roles_tb
    /\ RunAsTokenBlacklist(1) \in runas_tb

-----------------------------------------------------------------------------
\* a call that returned INVALID on a session without pending changes left the
\* committed store as it was and the session without pending changes
InvalidLeavesNothing(out) ==
    out.ret = "INVALID" => out.c.db = db /\ out.c.sess = db

\* C21: when add or update of a rule or policy returns INVALID, the database
\* is untouched and the session holds no pending modification, so that a later
\* committed operation on the same manager persists no part of the rejected
\* call.
C21_InvalidTouchesNothing ==
    sess = db =>
        /\ \A name \in CrudNames, rule \in RuleArgs :
               InvalidLeavesNothing(add_rule(Ctx, name, rule, {}, 1, "user", TRUE))
        /\ \A id \in AboveReserved(sess.rules), name \in OptNames, rule \in RuleArgs :
               InvalidLeavesNothing(update_rule(Ctx, id, name, rule, {}))
        /\ \A name \in CrudNames, policy \in PolicyArgs :
               InvalidLeavesNothing(add_policy(Ctx, name, policy, {}, 1, "user", TRUE))
        /\ \A id \in AboveReserved(sess.policies), name \in OptNames, policy \in PolicyArgs :
               InvalidLeavesNothing(update_policy(Ctx, id, name, policy, {}, TRUE))

-----------------------------------------------------------------------------
\* ids above max_id_reserved and names that a table may or may not hold
AbsentIds(table) == {i \in 100..102 : ~HasId(table, i)}
AbsentNames(table) == {n \in 0..102 : IdsNamed(table, n) = {}}

\* C22: deleting by id or by name an entity that does not exist returns false
\* as a value, raises nothing, and leaves the store unchanged, for each of the
\* role, rule and policy managers.
C22_DeleteMissingIsFalse ==
    /\ \A i \in AbsentIds(sess.roles) : delete_role(Ctx, i) = Out(Ctx, "False")
    /\ \A i \in AbsentIds(sess.rules) : delete_rule(Ctx, i) = Out(Ctx, "False")
    /\ \A i \in AbsentIds(sess.policies) : delete_policy(Ctx, i) = Out(Ctx, "False")
    /\ \A n \in AbsentNames(sess.roles) : delete_role_by_name(Ctx, n) = Out(Ctx, "False")
    /\ \A n \in AbsentNames(sess.rules) : delete_rule_by_name(Ctx, n) = Out(Ctx, "False")
    /\ \A n \in AbsentNames(sess.policies) : delete_policy_by_name(Ctx, n) = Out(Ctx, "False")

-----------------------------------------------------------------------------
\* the two directions of the role-policy add have the same outcomes
RolePolicyAliases ==
    \A r \in RPRoles, p \in RPPolicies, arg \in PositionArgs, fa \in BOOLEAN :
        call_add_role_to_policy(Ctx, p, r, arg, fa) = call_add_policy_to_role(Ctx, r, p, arg, fa)

\* C23: called with the same user, role and optional arguments on the same
\* state, add_user_to_role and add_role_to_user return the same result and
\* produce the same rows and levels, and likewise add_role_to_policy and
\* add_policy_to_role.
C23_AddAliases ==
    /\ \A u \in URUsers, r \in URRoles, arg \in PositionArgs :
           call_add_user_to_role(Ctx, u, r, arg) = call_add_role_to_user(Ctx, u, r, arg)
    /\ RolePolicyAliases

-----------------------------------------------------------------------------
\* ids the relationship calls are made with: reserved, above, and never stored
EndIds == {1, 100, 102}
IsReserved(id) == id <= max_id_reserved

\* the errors the contract gives a relationship call: the parent is reserved
\* and force_admin is not set, an endpoint is missing, the pair is linked (add
\* without position), the pair is not linked (remove)
Errors(reserved, parent_missing, parent_err, child_missing, child_err, other, other_err) ==
    {e \in {"ADMIN_RESOURCES"} : reserved}
        \cup {e \in {parent_err} : parent_missing}
        \cup {e \in {child_err} : child_missing}
        \cup {e \in {other_err} : ~reserved /\ ~parent_missing /\ ~child_missing /\ other}

\* an outcome that is the error the contract gives, if it gives one, and that
\* changes no row if it is an error
Contract(out, errors) ==
    /\ errors /= {} => out.ret \in errors
    /\ out.ret /= "True" => out.c.db = db /\ (sess = db => out.c.sess = sess)

UserRoleErrors ==
    \A u \in EndIds, r \in EndIds :
        LET linked == \E x \in sess.ur : x.user_id = u /\ x.role_id = r IN
        /\ \A pos \in {NoPos} \cup ExplicitPos, fa \in BOOLEAN :
               \A out \in add_role_to_user(Ctx, u, r, pos, fa, TRUE) :
                   Contract(out, Errors(IsReserved(u) /\ ~fa,
                                        ~HasId(sess.users, u), "USER_NOT_EXIST",
                                        ~HasId(sess.roles, r), "ROLE_NOT_EXIST",
                                        linked /\ pos = NoPos, "ALREADY_EXIST"))
        /\ Contract(remove_role_in_user(Ctx, u, r, TRUE),
                    Errors(IsReserved(u),
                           ~HasId(sess.users, u), "USER_NOT_EXIST",
                           ~HasId(sess.roles, r), "ROLE_NOT_EXIST",
                           ~linked, "INVALID"))

RolePolicyErrors ==
    \A r \in EndIds, p \in EndIds :
        LET linked == \E x \in sess.rp : x.role_id = r /\ x.policy_id = p IN
        /\ \A pos \in {NoPos} \cup ExplicitPos, fa \in BOOLEAN :
               \A out \in add_policy_to_role(Ctx, r, p, pos, fa, TRUE) :
                   Contract(out, Errors(IsReserved(r) /\ ~fa,
                                        ~HasId(sess.roles, r), "ROLE_NOT_EXIST",
                                        ~HasId(sess.policies, p), "POLICY_NOT_EXIST",
                                        linked /\ pos = NoPos, "ALREADY_EXIST"))
        /\ Contract(remove_policy_in_role(Ctx, r, p, TRUE),
                    Errors(IsReserved(r),
                           ~HasId(sess.roles, r), "ROLE_NOT_EXIST",
                           ~HasId(sess.policies, p), "POLICY_NOT_EXIST",
                           ~linked, "INVALID"))

RoleRuleErrors ==
    \A r \in EndIds, x \in EndIds :
        /\ \A fa \in BOOLEAN :
               Contract(add_rule_to_role(Ctx, x, r, TRUE, fa),
                        Errors(IsReserved(r) /\ ~fa,
                               ~HasId(sess.roles, r), "ROLE_NOT_EXIST",
                               ~HasId(sess.rules, x), "RULE_NOT_EXIST",
                               RoleRuleLinked(sess, r, x), "ALREADY_EXIST"))
        /\ Contract(remove_rule_in_role(Ctx, x, r, TRUE),
                    Errors(IsReserved(r),
                           ~HasId(sess.roles, r), "ROLE_NOT_EXIST",
                           ~HasId(sess.rules, x), "RULE_NOT_EXIST",
                           ~RoleRuleLinked(sess, r, x), "INVALID"))

\* C24: a relationship add or remove that returns an error leaves every
\* relationship row and level unchanged, and the error is ADMIN_RESOURCES for a
\* parent with id <= max_id_reserved without force_admin, the matching
\* USER/ROLE/POLICY/RULE_NOT_EXIST for a missing endpoint, ALREADY_EXIST for
\* adding without position a pair already linked, INVALID for removing a link
\* that does not exist.
C24_RelationshipErrors ==
    /\ UserRoleErrors
    /\ RolePolicyErrors
    /\ RoleRuleErrors

-----------------------------------------------------------------------------
\* C27: an attempt to remove from role 1 a rule it requires (rule 1 or rule 2),
\* through remove_rule_in_role, remove_role_in_rule, remove_all_rules_in_role
\* or remove_all_roles_in_rule, returns CONSTRAINT_ERROR.
C27_RequiredRuleConstraintError ==
    /\ remove_all_rules_in_role(Ctx, 1).ret = "CONSTRAINT_ERROR"
    /\ \A x \in required_rules :
           RoleRuleLinked(sess, 1, x) =>
               /\ remove_rule_in_role(Ctx, x, 1, TRUE).ret = "CONSTRAINT_ERROR"
               /\ remove_role_in_rule(Ctx, x, 1, TRUE).ret = "CONSTRAINT_ERROR"
               /\ remove_all_roles_in_rule(Ctx, x).ret = "CONSTRAINT_ERROR"

-----------------------------------------------------------------------------
\* C28: without force_admin, add_rule_to_role and remove_rule_in_role on a role
\* with id <= max_id_reserved return ADMIN_RESOURCES and leave that role's rule
\* links unchanged, whatever the id of the rule.
C28_ReservedRoleRuleLinksKept ==
    \A e \in Reserved(sess.roles), x \in RuleIds :
        /\ add_rule_to_role(Ctx, x, e.id, TRUE, FALSE) = Out(Ctx, "ADMIN_RESOURCES")
        /\ remove_rule_in_role(Ctx, x, e.id, TRUE) = Out(Ctx, "ADMIN_RESOURCES")

-----------------------------------------------------------------------------
\* the children of a parent occupy the levels 0..k-1
Contiguous(rows) == {x.level : x \in rows} = 0..(Cardinality(rows) - 1)

Min(a, b) == IF a <= b THEN a ELSE b

\* the level the contract gives the new row of a parent with k children
NewLevel(position, k) ==
    IF position = NoPos THEN k ELSE Min(CHOOSE p \in position : TRUE, k)

\* the rows of the parent after the add, by the contract
Raised(rows, position) ==
    {[x EXCEPT !.level = IF position /= NoPos /\ \A p \in position : x.level >= p
                         THEN @ + 1 ELSE @] : x \in rows}

UserRoleAddLevels ==
    \A u \in URUsers, r \in RoleIds, pos \in {NoPos} \cup ExplicitPos, fa \in BOOLEAN :
        LET rows == UserRows(sess, u) IN
        (/\ Contiguous(rows)
         /\ u > max_id_reserved \/ fa
         /\ HasId(sess.users, u) /\ HasId(sess.roles, r)
         /\ ~\E x \in rows : x.role_id = r) =>
            \A out \in add_role_to_user(Ctx, u, r, pos, fa, TRUE) :
                /\ out.ret = "True"
                /\ out.c.db = out.c.sess
                /\ out.c.sess.ur =
                       (sess.ur \ rows) \cup Raised(rows, pos)
                           \cup {[user_id |-> u, role_id |-> r,
                                  level |-> NewLevel(pos, Cardinality(rows))]}

RolePolicyAddLevels ==
    \A r \in RPRoles, p \in PolicyIds, pos \in {NoPos} \cup ExplicitPos, fa \in BOOLEAN :
        LET rows == RoleRows(sess, r) IN
        (/\ Contiguous(rows)
         /\ r > max_id_reserved \/ fa
         /\ HasId(sess.roles, r) /\ HasId(sess.policies, p)
         /\ ~\E x \in rows : x.policy_id = p) =>
            \A out \in add_policy_to_role(Ctx, r, p, pos, fa, TRUE) :
                /\ out.ret = "True"
                /\ out.c.db = out.c.sess
                /\ out.c.sess.rp =
                       (sess.rp \ rows) \cup Raised(rows, pos)
                           \cup {[role_id |-> r, policy_id |-> p,
                                  level |-> NewLevel(pos, Cardinality(rows))]}

\* C25: for a parent whose children occupy levels 0..k-1 and a child not yet
\* linked to it, add with an explicit position p gives the new row level
\* min(p, k), raises by exactly one the level of each existing row with level
\* >= p and leaves rows with level < p unchanged; add without position gives
\* the new row level k and changes no other row.
C25_PositionedAdd == UserRoleAddLevels /\ RolePolicyAddLevels

\* C25 witness: a third role was added to user 100 at position 0 before two
\* others, and role 100 holds three policies
C25_AddedInFront ==
    /\ op = Call("add_role_to_user", 99)
    /\ ret = "True"
    /\ UserRows(db, 100) = {[user_id |-> 100, role_id |-> 99, level |-> 0],
                            [user_id |-> 100, role_id |-> 100, level |-> 1],
                            [user_id |-> 100, role_id |-> 101, level |-> 2]}
    /\ Cardinality(RoleRows(db, 100)) = 3

------------------------------------------------------------------------------
(* ids of added entities *)

SuppliedIds == {{}, {50}, {150}}
HighestId(table) == Max({e.id : e \in db[table]})

\* a successful add stored exactly one new row, with this id
StoredWithId(out, table, id) ==
    out.ret = "True" =>
        /\ Cardinality(out.c.db[table] \ db[table]) = 1
        /\ \A e \in out.c.db[table] \ db[table] : e.id = id

AddOuts(table, id, check_default) ==
    IF table = "users"
    THEN {add_user(Ctx, n, "pw", id, FALSE, 1, "user", check_default) : n \in CrudNames}
    ELSE IF table = "roles"
    THEN {add_role(Ctx, n, id, 1, "user", check_default) : n \in CrudNames}
    ELSE IF table = "rules"
    THEN {add_rule(Ctx, n, b, id, 1, "user", check_default) : n \in CrudNames, b \in RuleArgs}
    ELSE {add_policy(Ctx, n, p, id, 1, "user", check_default) : n \in CrudNames, p \in PolicyArgs}

DefaultForced(table) ==
    (db[table] /= {} /\ HighestId(table) <= max_id_reserved) =>
        \A id \in SuppliedIds : \A out \in AddOuts(table, id, TRUE) :
            StoredWithId(out, table, max_id_reserved + 1)

SuppliedHonoured(table) ==
    \A id \in SuppliedIds \ {{}} : \A out \in AddOuts(table, id, FALSE) :
        StoredWithId(out, table, CHOOSE x \in id : TRUE)

\* C26: with check_default an add into a table whose highest id is at most
\* max_id_reserved stores the new entity with id max_id_reserved + 1 whatever id
\* was supplied; without check_default a supplied id is stored as given
C26_DefaultIdForced ==
    sess = db =>
        \A table \in {"users", "roles", "rules", "policies"} :
            DefaultForced(table) /\ SuppliedHonoured(table)

------------------------------------------------------------------------------
(* concurrent run-as rules *)

\* C29: however the steps of two concurrent add_user_roles_rules(run_as=True)
\* calls interleave, the run-as ledger holds at most one row once both have
\* returned, and an insert that collided returned ALREADY_EXIST
C29_RunAsSingleton ==
    (\A p \in Callers : callers[p].pc = "idle") => Cardinality(runas_tb) <= 1

------------------------------------------------------------------------------
(* delete_all_expired_rules *)

\* the ledgers without the rules whose is_valid_until is before current_time
Unexpired(t, current_time) ==
    [users |-> {x \in t.users : ~(x.is_valid_until < current_time)},
     roles |-> {x \in t.roles : ~(x.is_valid_until < current_time)},
     runas |-> {x \in t.runas : ~(x.is_valid_until < current_time)}]

\* C30: delete_all_expired_rules called at time now removes exactly the rules
\* of the three ledgers whose is_valid_until is strictly less than now and
\* leaves every other rule unchanged; a second call at the same time changes
\* nothing
C30_DeleteExpiredExact ==
    \A t \in delete_all_expired_rules(Tok, now) :
        /\ t = Unexpired(Tok, now)
        /\ delete_all_expired_rules(t, now) = {t}

------------------------------------------------------------------------------
(* delete_all_rules *)

\* the elements of a list
Elements(list) == {list[i] : i \in DOMAIN list}

\* C31: delete_all_rules leaves the three ledgers empty and returns the pair
\* (ids of the user rules it deleted, ids of the role rules it deleted)
C31_DeleteAllReturnsPair ==
    /\ \A t \in token_delete_all_rules(Tok) :
           t = [users |-> {}, roles |-> {}, runas |-> {}]
    /\ \A r \in delete_all_rules_lists(Tok) :
           /\ Elements(r.list_users) = {x.user_id : x \in users_tb}
           /\ Elements(r.list_roles) = {x.role_id : x \in roles_tb}
           /\ Len(r.list_users) = Cardinality(users_tb)
           /\ Len(r.list_roles) = Cardinality(roles_tb)

------------------------------------------------------------------------------
(* update *)

\* the outcomes of update on one entity over the arguments of the calls
UpdateOuts(table, id) ==
    IF table = "users"
    THEN {update_user(Entered, id, password, type) : password \in {{}, {"new"}}, type \in OptTypes}
    ELSE IF table = "roles"
    THEN {update_role(Entered, id, name, type) : name \in OptNames, type \in OptTypes}
    ELSE IF table = "rules"
    THEN {update_rule(Entered, id, name, rule, type) : name \in OptNames, rule \in RuleArgs, type \in OptTypes}
    ELSE {update_policy(Entered, id, name, policy, type, TRUE)
          : name \in OptNames, policy \in PolicyArgs, type \in OptTypes}

\* update with every field left out
NullUpdate(table, id) ==
    IF table = "users" THEN update_user(Entered, id, {}, {})
    ELSE IF table = "roles" THEN update_role(Entered, id, {}, {})
    ELSE IF table = "rules" THEN update_rule(Entered, id, {}, None, {})
    ELSE update_policy(Entered, id, {}, None, {}, TRUE)

NullUpdateChangesNothing ==
    \A table \in {"users", "roles", "rules", "policies"} : \A id \in AboveReserved(db[table]) :
        /\ NullUpdate(table, id).c = Entered
        /\ NullUpdate(table, id).ret /= "True"

TrueMeansChanged ==
    \A table \in {"users", "roles", "rules", "policies"} : \A id \in AboveReserved(db[table]) :
        \A out \in UpdateOuts(table, id) :
            out.ret = "True" => Row(out.c.db[table], id) /= Row(db[table], id)

\* C32: update of a stored entity above the reserved range with every field
\* null changes nothing, and update returns True only when a stored field of
\* the entity was changed by the call
C32_UpdateTrueMeansChanged == NullUpdateChangesNothing /\ TrueMeansChanged

------------------------------------------------------------------------------
(* rbac.db.tmp *)

\* C33: when check_database_integrity has returned, on whichever path, the
\* file rbac.db.tmp does not exist; and the temp database an upgrade fills is
\* a new one, never a file left by an earlier run
C33_TmpRemoved ==
    /\ pc \in {"done", "failed"} => tmp = {}
    /\ pc = "defaults" => tmp = {NewFile}

\* C33 witness: an upgrade found a temp file left by a run that was killed,
\* removed it and created a new one
C33_LeftoverRemoved ==
    /\ op = Call("create_tmp", 1)
    /\ pc = "defaults"
    /\ tmp = {NewFile}

------------------------------------------------------------------------------
(* the two passes of migrate_data *)

EntityTables == {"users", "roles", "rules", "policies"}

\* a pass that did not raise added to the temp database exactly the source
\* entities whose id is in ids, with this resource_type
PassCopies(r, ids, resource_type) ==
    ~r.raised =>
        \A table \in EntityTables :
            LET new == r.c.db[table] \ The(tmp).store[table] IN
            /\ {e.id : e \in new} = {e.id : e \in db[table]} \cap ids
            /\ \A e \in new : e.resource_type = resource_type

\* C34: the first pass of the migration copies exactly the source entities
\* with id in 90..99 as protected, the second pass exactly those with id above
\* 99 as user; an entity with id below 90 is never copied
C34_PassesCopyRanges ==
    /\ pc = "migrate_protected" =>
           \A r \in migrate_data(db, Fresh(The(tmp).store), {cloud_reserved_range},
                                 {max_id_reserved}, "protected") :
               PassCopies(r, 90..max_id_reserved, "protected")
    /\ pc = "migrate_user" =>
           \A r \in migrate_data(db, Fresh(The(tmp).store), {max_id_reserved + 1}, {}, "user") :
               PassCopies(r, {i \in Nat : i > max_id_reserved}, "user")

------------------------------------------------------------------------------
(* relationship rows with a reserved endpoint *)

\* the entity of the new database that stands for an endpoint of a source
\* row: the one with the name of the source entity when the id is reserved,
\* the one with the id otherwise ({}: none)
Counterpart(target, table, id) ==
    IF id <= max_id_reserved
    THEN IdsNamed(target[table], Row(db[table], id).name)
    ELSE {id} \cap {e.id : e \in target[table]}

\* the rows get_data selects in one of the two passes
Selected(rows, col_a, col_b) ==
    {x \in rows : x[col_a] >= cloud_reserved_range \/ x[col_b] >= cloud_reserved_range}

\* the source rows of a relationship with a reserved endpoint are in the new
\* database against the counterparts of their endpoints, when both exist
Rematched(target, rel, table_a, col_a, table_b, col_b) ==
    \A x \in Selected(db[rel], col_a, col_b) :
        (x[col_a] <= max_id_reserved \/ x[col_b] <= max_id_reserved) =>
            LET a == Counterpart(target, table_a, x[col_a])
                b == Counterpart(target, table_b, x[col_b])
            IN (a /= {} /\ b /= {}) =>
                   \E y \in target[rel] : y[col_a] = The(a) /\ y[col_b] = The(b)

\* C35: a migrated relationship row with an endpoint of id <= max_id_reserved
\* is in the new database against the entity with the name of that endpoint,
\* whatever its id; when the new database has no entity of that name the row
\* is skipped and migrate_data raises nothing
C35_ReservedEndpointsByName ==
    /\ pc = "set_version" =>
           /\ Rematched(The(tmp).store, "ur", "users", "user_id", "roles", "role_id")
           /\ Rematched(The(tmp).store, "rp", "roles", "role_id", "policies", "policy_id")
           /\ Rematched(The(tmp).store, "rr", "roles", "role_id", "rules", "rule_id")
    /\ pc = "migrate_protected" =>
           \A r \in migrate_data(db, Fresh(The(tmp).store), {cloud_reserved_range},
                                 {max_id_reserved}, "protected") : ~r.raised
    /\ pc = "migrate_user" =>
           \A r \in migrate_data(db, Fresh(The(tmp).store), {max_id_reserved + 1}, {}, "user") :
               ~r.raised

\* C35 witness: user 100 had role 3, named like the new default role 2, and
\* role 50, whose name the new database does not have; both passes are done,
\* user 100 has role 2 in the new database and no row for role 50
C35_RematchedAndSkipped ==
    /\ pc = "set_version"
    /\ \E x \in db.ur : x.user_id = 100 /\ x.role_id = 3
    /\ \E x \in db.ur : x.user_id = 100 /\ x.role_id = 50
    /\ \E y \in The(tmp).store.ur : y.user_id = 100 /\ y.role_id = 2
    /\ ~\E y \in The(tmp).store.ur : y.user_id = 100 /\ y.role_id \in {3, 50}

------------------------------------------------------------------------------
(* created_at *)

\* the entities of a table that both passes have copied keep their created_at
CreatedAtKept(table) ==
    \A e \in db[table] : \A f \in The(tmp).store[table] :
        (e.id >= cloud_reserved_range /\ f.id = e.id) => f.created_at = e.created_at

\* C36: every user, role, rule and policy copied by migrate_data has in the
\* new database the created_at it had in the source database
C36_CreatedAtPreserved ==
    pc = "set_version" => \A table \in EntityTables : CreatedAtKept(table)

-------------------------------------------------------------------------------
(* ids given by add with check_default *)

\* every row a successful add stored has an id above the reserved range
StoredAboveReserved(out, table) ==
    out.ret = "True" => \A e \in out.c.db[table] \ db[table] : e.id > max_id_reserved

\* C37: every user, role, rule or policy stored by an add with check_default
\* has an id above max_id_reserved, whatever id was supplied and whatever the
\* highest id of its table is
C37_NormalAddAboveReserved ==
    sess = db =>
        \A table \in EntityTables : \A id \in SuppliedIds :
            \A out \in AddOuts(table, id, TRUE) : StoredAboveReserved(out, table)

-------------------------------------------------------------------------------
(* re-issuing the rule of a user *)

\* a call of add_user_roles_rules is between two of its commits
Reissuing == \E p \in Callers : callers[p].pc /= "idle"

\* no is_token_valid for the user accepts a token whose nbf is at most nbf
Rejected(user_id, nbf) ==
    \A token_nbf_time \in 0..nbf :
        \A valid \in is_token_valid(Tok, token_nbf_time, {user_id}, NoId, FALSE) : ~valid

\* C38: while add_user_roles_rules re-issues the rule of a user whose last
\* rule has not expired, no is_token_valid for that user accepts a token whose
\* nbf is at most the nbf_invalid_until of that rule
C38_NoGapWhileReissuing ==
    Reissuing =>
        \A user_id \in ReissueUsers : \A old \in issued.user[user_id] :
            now <= old + auth_token_exp_timeout => Rejected(user_id, old)

-------------------------------------------------------------------------------
(* replace_user_role, replace_role_policy, replace_rule_role *)

\* what a fresh session sees after a replace that returned True: the new link
\* and not the old one
Replaced(out, table, parent_col, parent, child_col, old, new) ==
    out.ret = "True" =>
        /\ \E x \in out.c.db[table] : x[parent_col] = parent /\ x[child_col] = new
        /\ \A x \in out.c.db[table] : ~(x[parent_col] = parent /\ x[child_col] = old)

UserRoleReplaced ==
    \A u \in URUsers, r \in URRoles, pos \in {{default_position}} \cup ExplicitPos : \A n \in URRoles \ {r} :
        \A out \in replace_user_role(Ctx, u, r, n, pos) :
            Replaced(out, "ur", "user_id", u, "role_id", r, n)

RolePolicyReplaced ==
    \A r \in RPRoles, p \in RPPolicies : \A n \in RPPolicies \ {p} :
        \A out \in replace_role_policy(Ctx, r, p, n) :
            Replaced(out, "rp", "role_id", r, "policy_id", p, n)

RuleRoleReplaced ==
    \A x \in RuleIds, r \in RoleIds : \A n \in RoleIds \ {r} :
        \A out \in {replace_rule_role(Ctx, x, r, n)} :
            Replaced(out, "rr", "rule_id", x, "role_id", r, n)

\* C39: after replace_user_role, replace_role_policy or replace_rule_role has
\* returned True the committed database holds the new link and no longer holds
\* the old one
C39_ReplaceCommitted ==
    UserRoleReplaced /\ RolePolicyReplaced /\ RuleRoleReplaced

-------------------------------------------------------------------------------
(* remove_all_roles_in_user, remove_all_users_in_role,                        *)
(* remove_all_policies_in_role, remove_all_roles_in_policy                    *)

\* after a remove_all that returned True no link of the table has the entity
\* in the column, in the session and in the committed database
NoLinkLeft(out, table, col, id) ==
    out.ret = "True" =>
        \A x \in out.c.sess[table] \cup out.c.db[table] : x[col] /= id

UserRolesCleared ==
    /\ \A u \in UserIds : \A out \in remove_all_roles_in_user(Ctx, u) : NoLinkLeft(out, "ur", "user_id", u)
    /\ \A r \in RoleIds : \A out \in remove_all_users_in_role(Ctx, r) : NoLinkLeft(out, "ur", "role_id", r)

RolesPoliciesCleared ==
    /\ \A r \in RoleIds : \A out \in remove_all_policies_in_role(Ctx, r) : NoLinkLeft(out, "rp", "role_id", r)
    /\ \A p \in PolicyIds : \A out \in remove_all_roles_in_policy(Ctx, p) : NoLinkLeft(out, "rp", "policy_id", p)

\* C40: after remove_all_roles_in_user, remove_all_users_in_role,
\* remove_all_policies_in_role or remove_all_roles_in_policy has returned True
\* the given user, role or policy has no link of that kind left, whatever the
\* id of the other endpoint is
C40_RemoveAllLeavesNoLink ==
    UserRolesCleared /\ RolesPoliciesCleared
====
